---- MODULE Spec2Model ----
(***************************************************************************)
(* Boundary exchange of cell-centred variables between MeshBlocks          *)
(* (src/src/bvals/bvals_cc.cpp): SendBuffersCC packs the boundary cells of *)
(* every MeshBlock of a pack and copies them to a neighbour on the same    *)
(* rank or sends them with MPI_Isend; RecvBuffersCC polls the transfers    *)
(* and, once all are complete, unpacks the receive buffers into the ghost  *)
(* cells.  The model is the MPI_PARALLEL_ENABLED build on a 1D mesh        *)
(* (nnghbr = 2) shared by two ranks, one MeshBlockPack per rank and one    *)
(* BoundaryValueCC object per rank and physics field.                      *)
(***************************************************************************)
EXTENDS Integers, Sequences, FiniteSets, TLC

\* ------------------------------------------------------------- bounds
MaxBlocks == 3
MaxCycle == 2
KeysMaxCycle == 1
NVar == 1
NGhost == 1
NX1 == 2

VARIABLES
  mesh,     \* the run: number of MeshBlocks, how many rank 0 owns, periodic,
            \* the number of exchange cycles, and whether the scheduler may
            \* poll RecvBuffersCC before the SendBuffersCC of the cycle
  flds,     \* the physics fields alive at once, each with its own buffers
  a,        \* a[f][r][m][v][<<k,j,i>>]: the array handed to Send/RecvBuffersCC
  sdat,     \* send_buf[n].data(m,v,x) of field f on rank r
  rdat,     \* recv_buf[n].data(m,v,x)
  bstat,    \* recv_buf[n].bcomm_stat(m)
  req,      \* recv_buf[n].comm_req[m]
  chan,     \* chan[src][dst]: the messages MPI_Isend issued, not yet received
  pc,       \* position of the task list of field f on rank r
  cyc,      \* exchange cycle of field f on rank r
  ret,      \* TaskStatus of the last RecvBuffersCC since InitRecv/SendBuffersCC
  prev,     \* ret as it was when the last RecvBuffersCC was called
  sret,     \* TaskStatus returned by the SendBuffersCC of the cycle
  geom,     \* the index geometry and nnghbr of a pack under construction
  send_index, \* send_buf[n].index after AllocateBuffersCC
  recv_index, \* recv_buf[n].index after AllocateBuffersCC
  hyd,      \* the configuration of a Hydro object: mesh, methods, scratch
  w0,       \* w0(n,k,j,i): the primitive variables
  divf,     \* divf(n,k,j,i): the flux divergence
  hpc,      \* position of a HydroDivFlux call
  hlog,     \* the sweeps the call has run, in order
  hret,     \* TaskStatus the call returned
  win,      \* what each iteration of the last sliding-window sweep read
  team,     \* one outer task of a sweep run by a team of threads
  tpc,      \* tpc[th]: what thread th of the team does next
  tx,       \* tx[th]: the iteration of the sliding window thread th is in
  tview,    \* tview[th]: the array each scratch view of thread th refers to
  tacc      \* the accesses to the scratch arrays and to divf since the last
            \* barrier: [th, arr, i, w]

\* the boundary exchange
xvars == <<mesh, flds, a, sdat, rdat, bstat, req, chan, pc, cyc, ret, prev, sret>>
\* the allocation of the buffers
gvars == <<geom, send_index, recv_index>>
\* the flux divergence
hvars == <<hyd, w0, divf, hpc, hlog, hret, win>>
\* the threads of one team
tvars == <<team, tpc, tx, tview, tacc>>
vars == <<xvars, gvars, hvars, tvars>>
\* what the exchange leaves alone
nonExchange == <<gvars, hvars, tvars>>

Ranks == 0..1

\* ----------------------------------------------------- index geometry
\* bvals_cc.cpp:45-52
nnghbr == 2
indcs == [ng |-> NGhost, is |-> NGhost, ie |-> NGhost + NX1 - 1,
          js |-> 0, je |-> 0, ks |-> 0, ke |-> 0]
ncells1 == NX1 + 2 * NGhost
Cells == {<<k, j, i>> : k \in indcs.ks..indcs.ke, j \in indcs.js..indcs.je,
                        i \in 0..(ncells1 - 1)}
Interior == {c \in Cells : c[3] >= indcs.is /\ c[3] <= indcs.ie}

InitIndices(il, iu, jl, ju, kl, ku) ==
  [il |-> il, iu |-> iu, jl |-> jl, ju |-> ju, kl |-> kl, ku |-> ku]

\* bvals_cc.cpp:50
Ng1_Same(ng) == ng
Ng1(ng) == ng - 1

\* bvals_cc.cpp:72-138: the index ranges AllocateBuffersCC gives send_buf[n]
\* for the index geometry ic
SendIndexOf(ic, n) ==
  LET ng == ic.ng  ng1 == Ng1(ic.ng)
      is == ic.is  ie == ic.ie
      js == ic.js  je == ic.je
      ks == ic.ks  ke == ic.ke
  IN
    CASE n = 0 -> InitIndices(is, is+ng1, js, je, ks, ke)
      [] n = 1 -> InitIndices(ie-ng1, ie, js, je, ks, ke)
      [] n = 2 -> InitIndices(is, ie, js, js+ng1, ks, ke)
      [] n = 3 -> InitIndices(is, ie, je-ng1, je, ks, ke)
      [] n = 4 -> InitIndices(is, is+ng1, js, js+ng1, ks, ke)
      [] n = 5 -> InitIndices(ie-ng1, ie, js, js+ng1, ks, ke)
      [] n = 6 -> InitIndices(is, is+ng1, je-ng1, je, ks, ke)
      [] n = 7 -> InitIndices(ie-ng1, ie, je-ng1, je, ks, ke)
      [] n = 8 -> InitIndices(is, ie, js, je, ks, ks+ng1)
      [] n = 9 -> InitIndices(is, ie, js, je, ke-ng1, ke)
      [] n = 10 -> InitIndices(is, is+ng1, js, je, ks, ks+ng1)
      [] n = 11 -> InitIndices(ie-ng1, ie, js, je, ks, ks+ng1)
      [] n = 12 -> InitIndices(is, is+ng1, js, je, ke-ng1, ke)
      [] n = 13 -> InitIndices(ie-ng1, ie, js, je, ke-ng1, ke)
      [] n = 14 -> InitIndices(is, ie, js, js+ng1, ks, ks+ng1)
      [] n = 15 -> InitIndices(is, ie, je-ng1, je, ks, ks+ng1)
      [] n = 16 -> InitIndices(is, ie, js, js+ng1, ke-ng1, ke)
      [] n = 17 -> InitIndices(is, ie, je-ng1, je, ke-ng1, ke)
      [] n = 18 -> InitIndices(is, is+ng1, js, js+ng1, ks, ks+ng1)
      [] n = 19 -> InitIndices(ie-ng1, ie, js, js+ng1, ks, ks+ng1)
      [] n = 20 -> InitIndices(is, is+ng1, je-ng1, je, ks, ks+ng1)
      [] n = 21 -> InitIndices(ie-ng1, ie, je-ng1, je, ks, ks+ng1)
      [] n = 22 -> InitIndices(is, is+ng1, js, js+ng1, ke-ng1, ke)
      [] n = 23 -> InitIndices(ie-ng1, ie, js, js+ng1, ke-ng1, ke)
      [] n = 24 -> InitIndices(is, is+ng1, je-ng1, je, ke-ng1, ke)
      [] n = 25 -> InitIndices(ie-ng1, ie, je-ng1, je, ke-ng1, ke)

\* bvals_cc.cpp:75-147: the index ranges AllocateBuffersCC gives recv_buf[n]
RecvIndexOf(ic, n) ==
  LET ng == ic.ng
      is == ic.is  ie == ic.ie
      js == ic.js  je == ic.je
      ks == ic.ks  ke == ic.ke
  IN
    CASE n = 0 -> InitIndices(is-ng, is-1, js, je, ks, ke)
      [] n = 1 -> InitIndices(ie+1, ie+ng, js, je, ks, ke)
      [] n = 2 -> InitIndices(is, ie, js-ng, js-1, ks, ke)
      [] n = 3 -> InitIndices(is, ie, je+1, je+ng, ks, ke)
      [] n = 4 -> InitIndices(is-ng, is-1, js-ng, js-1, ks, ke)
      [] n = 5 -> InitIndices(ie+1, ie+ng, js-ng, js-1, ks, ke)
      [] n = 6 -> InitIndices(is-ng, is-1, je+1, je+ng, ks, ke)
      [] n = 7 -> InitIndices(ie+1, ie+ng, je+1, je+ng, ks, ke)
      [] n = 8 -> InitIndices(is, ie, js, je, ks-ng, ks-1)
      [] n = 9 -> InitIndices(is, ie, js, je, ke+1, ke+ng)
      [] n = 10 -> InitIndices(is-ng, is-1, js, je, ks-ng, ks-1)
      [] n = 11 -> InitIndices(ie+1, ie+ng, js, je, ks-ng, ks-1)
      [] n = 12 -> InitIndices(is-ng, is-1, js, je, ke+1, ke+ng)
      [] n = 13 -> InitIndices(ie+1, ie+ng, js, je, ke+1, ke+ng)
      [] n = 14 -> InitIndices(is, ie, js-ng, js-1, ks-ng, ks-1)
      [] n = 15 -> InitIndices(is, ie, je+1, je+ng, ks-ng, ks-1)
      [] n = 16 -> InitIndices(is, ie, js-ng, js-1, ke+1, ke+ng)
      [] n = 17 -> InitIndices(is, ie, je+1, je+ng, ke+1, ke+ng)
      [] n = 18 -> InitIndices(is-ng, is-1, js-ng, js-1, ks-ng, ks-1)
      [] n = 19 -> InitIndices(ie+1, ie+ng, js-ng, js-1, ks-ng, ks-1)
      [] n = 20 -> InitIndices(is-ng, is-1, je+1, je+ng, ks-ng, ks-1)
      [] n = 21 -> InitIndices(ie+1, ie+ng, je+1, je+ng, ks-ng, ks-1)
      [] n = 22 -> InitIndices(is-ng, is-1, js-ng, js-1, ke+1, ke+ng)
      [] n = 23 -> InitIndices(ie+1, ie+ng, js-ng, js-1, ke+1, ke+ng)
      [] n = 24 -> InitIndices(is-ng, is-1, je+1, je+ng, ke+1, ke+ng)
      [] n = 25 -> InitIndices(ie+1, ie+ng, je+1, je+ng, ke+1, ke+ng)

\* the buffers of the exchange model (1D mesh, geometry indcs)
SendIndex(n) == SendIndexOf(indcs, n)
RecvIndex(n) == RecvIndexOf(indcs, n)

\* number of cells of a buffer (the third extent of data, spec 4.1)
BufCells(ix) == (ix.iu - ix.il + 1) * (ix.ju - ix.jl + 1) * (ix.ku - ix.kl + 1)

\* ------------------------------------------------------ neighbour table
\* gidslist[r]: first global ID owned by rank r (bvals_cc.cpp:262)
gidslist(r) == IF r = 0 THEN 0 ELSE mesh.nb0
\* pmy_pack->pmb->nmb (bvals_cc.cpp:178)
nmb(r) == IF r = 0 THEN mesh.nb0 ELSE mesh.nb - mesh.nb0
\* pmy_pack->gids (bvals_cc.cpp:255)
gids(r) == gidslist(r)
\* pmy_pack->pmb->mbgid (bvals_cc.cpp:185)
mbgid(r, m) == gidslist(r) + m
RankOf(g) == IF g < mesh.nb0 THEN 0 ELSE 1
ActiveRanks == {r \in Ranks : nmb(r) > 0}

\* The neighbour table of a 1D mesh: direction 0 is the inner x1 face, 1 the
\* outer; destn is the buffer of the neighbour that faces this block; a
\* physical boundary holds the sentinel -1 in every field.
nghbr(r, n, m) ==
  LET g == mbgid(r, m)
      raw == IF n = 0 THEN g - 1 ELSE g + 1
      nb == IF raw >= 0 /\ raw < mesh.nb THEN raw
            ELSE IF mesh.per THEN raw % mesh.nb ELSE -1
  IN IF nb < 0 THEN [gid |-> -1, rank |-> -1, destn |-> -1]
     ELSE [gid |-> nb, rank |-> RankOf(nb), destn |-> 1 - n]

Blocks(r) == 0..(nmb(r) - 1)
Dirs == 0..(nnghbr - 1)
VarIds == 0..(NVar - 1)

\* the exchange key the task list of field f passes to SendBuffersCC
KeyOf(f) == f - 1

\* The content of cell c of variable v of block g of field f in cycle cy:
\* every (field, cycle, block, variable, cell) has a value of its own.
Val(f, cy, g, v, c) == c[3] + 10 * v + 100 * g + 1000 * cy + 10000 * f

\* ------------------------------------------------------------ Init
\* no pack is under construction
NoAllocation == geom = <<>> /\ send_index = <<>> /\ recv_index = <<>>
\* no Hydro object
NoHydro ==
  /\ hyd = <<>> /\ w0 = <<>> /\ divf = <<>> /\ hpc = "none" /\ hlog = <<>>
  /\ hret = "none" /\ win = <<>>
\* no team at work
NoTeam == team = <<>> /\ tpc = <<>> /\ tx = <<>> /\ tview = <<>> /\ tacc = {}

ZeroBuf(r, send) ==
  [n \in Dirs |-> [m \in Blocks(r) |-> [v \in VarIds |->
     [x \in 0..(BufCells(IF send THEN SendIndex(n) ELSE RecvIndex(n)) - 1)
        |-> 0]]]]

Meshes(maxc, early) ==
  {[nb |-> b, nb0 |-> b0, per |-> p, maxc |-> maxc, early |-> early] :
     b \in 1..MaxBlocks, b0 \in 1..MaxBlocks, p \in BOOLEAN}

InitWith(F, M) ==
  /\ mesh \in {ms \in M : ms.nb0 <= ms.nb}
  /\ flds = F
  /\ a = [f \in F |-> [r \in Ranks |-> [m \in Blocks(r) |-> [v \in VarIds |->
            [c \in Cells |-> Val(f, 0, mbgid(r, m), v, c)]]]]]
  /\ sdat = [f \in F |-> [r \in Ranks |-> ZeroBuf(r, TRUE)]]
  /\ rdat = [f \in F |-> [r \in Ranks |-> ZeroBuf(r, FALSE)]]
  /\ bstat = [f \in F |-> [r \in Ranks |-> [n \in Dirs |-> [m \in Blocks(r) |-> "waiting"]]]]
  /\ req = [f \in F |-> [r \in Ranks |-> [n \in Dirs |-> [m \in Blocks(r) |-> "uninit"]]]]
  /\ chan = [s \in Ranks |-> [d \in Ranks |-> <<>>]]
  /\ pc = [f \in F |-> [r \in Ranks |-> "idle"]]
  /\ cyc = [f \in F |-> [r \in Ranks |-> 0]]
  /\ ret = [f \in F |-> [r \in Ranks |-> "none"]]
  /\ prev = [f \in F |-> [r \in Ranks |-> "none"]]
  /\ sret = [f \in F |-> [r \in Ranks |-> "none"]]
  /\ NoAllocation
  /\ NoHydro
  /\ NoTeam

Init == InitWith({1}, Meshes(MaxCycle, TRUE))

\* --------------------------------------------------------- transport
\* utils/create_mpitag.hpp is not part of the sources: the tag is what the
\* specification says of it, a key derived from the receiving block's local
\* ID, the receiving buffer index and the caller's key.
CreateMPITag(lid, bufid, key) == <<lid, bufid, key>>

\* MPI_Test on a receive request (bvals_cc.cpp:308): an active request has
\* not been matched (flag 0); a matched one completes and becomes
\* MPI_REQUEST_NULL, on which every later test succeeds.
MPI_Test(rq) ==
  CASE rq = "active" -> [flag |-> FALSE, req |-> "active"]
    [] rq = "done" -> [flag |-> TRUE, req |-> "null"]
    [] rq = "null" -> [flag |-> TRUE, req |-> "null"]

\* index of the first message of queue q carrying tag, 0 when there is none
FirstWithTag(q, tag) ==
  LET hits == {x \in 1..Len(q) : q[x].tag = tag}
  IN IF hits = {} THEN 0 ELSE CHOOSE x \in hits : \A y \in hits : x <= y

RemoveAt(q, x) == [y \in 1..(Len(q) - 1) |-> IF y < x THEN q[y] ELSE q[y + 1]]

\* ------------------------------------------------------ SendBuffersCC
\* bvals_cc.cpp:195-197: (m, n, v) of a team from its league rank
LeagueM(lr) == lr \div (nnghbr * NVar)
LeagueN(lr) == (lr - LeagueM(lr) * (nnghbr * NVar)) \div NVar
LeagueV(lr) == lr - LeagueM(lr) * (nnghbr * NVar) - LeagueN(lr) * NVar

\* a flattening whose k stride is nj, not ni*nj
FlatIndex_ShortStride(ix, k, j, i) ==
  LET ni == ix.iu - ix.il + 1
      nj == ix.ju - ix.jl + 1
  IN (i - ix.il) + ni * (j - ix.jl) + nj * (k - ix.kl)

\* bvals_cc.cpp:225, 232, 355: the flattened index of cell (k,j,i) in box ix
FlatIndex(ix, k, j, i) ==
  LET ni == ix.iu - ix.il + 1
      nj == ix.ju - ix.jl + 1
  IN (i - ix.il) + ni * ((j - ix.jl) + nj * (k - ix.kl))

\* bvals_cc.cpp:211-215, 346-350: the (k, j) of the middle loop's idx
MiddleKJ(ix, idx) ==
  LET nj == ix.ju - ix.jl + 1
      k0 == idx \div nj
  IN [k |-> k0 + ix.kl, j |-> (idx - k0 * nj) + ix.jl]

\* the inner loop stopping one cell short: ThreadVectorRange(tmember, il, iu)
VectorRange_Short(il, iu) == il..(iu - 1)

\* bvals_cc.cpp:223, 230, 353: ThreadVectorRange(tmember, il, iu + 1)
VectorRange(il, iu) == il..iu

\* the (k, j, i) one team visits: middle loop over nk*nj, inner loop over i
TeamCells(ix) ==
  LET nkj == (ix.ku - ix.kl + 1) * (ix.ju - ix.jl + 1)
  IN {<<MiddleKJ(ix, idx).k, MiddleKJ(ix, idx).j, i>> :
        idx \in 0..(nkj - 1), i \in VectorRange(ix.il, ix.iu)}

\* data with the writes W (pairs <<flattened index, value>>) applied
Store(data, W) ==
  [x \in DOMAIN data |->
     IF \E w \in W : w[1] = x THEN (CHOOSE w \in W : w[1] = x)[2] ELSE data[x]]

\* the copy going to the buffer of the sender's own direction n
PackDest_SameDir(r, n, m) ==
  [mm |-> nghbr(r, n, m).gid - mbgid(r, 0), nn |-> n]

\* bvals_cc.cpp:221-222: receiving MeshBlock and buffer of a same-rank copy
PackDest(r, n, m) ==
  [mm |-> nghbr(r, n, m).gid - mbgid(r, 0), nn |-> nghbr(r, n, m).destn]

\* bvals_cc.cpp:195-235: one team of the pack kernel; bufs = [s, rv] are the
\* send and receive buffer data of the BoundaryValueCC object
PackTeam(f, r, lr, bufs) ==
  LET m == LeagueM(lr)
      n == LeagueN(lr)
      v == LeagueV(lr)
      ix == SendIndex(n)
      W == {<<FlatIndex(ix, c[1], c[2], c[3]), a[f][r][m][v][c]>> : c \in TeamCells(ix)}
  IN IF nghbr(r, n, m).rank = r
     THEN LET d == PackDest(r, n, m)
          IN [bufs EXCEPT !.rv[d.nn][d.mm][v] = Store(@, W)]
     ELSE [bufs EXCEPT !.s[n][m][v] = Store(@, W)]

RECURSIVE PackFrom(_, _, _, _)
PackFrom(f, r, lr, bufs) ==
  IF lr >= nmb(r) * nnghbr * NVar THEN bufs
  ELSE PackFrom(f, r, lr + 1, PackTeam(f, r, lr, bufs))

\* bvals_cc.cpp:189-237: the pack kernel over all (m, n, v)
PackKernel(f, r) == PackFrom(f, r, 0, [s |-> sdat[f][r], rv |-> rdat[f][r]])

\* the tag built without the caller's key
SendTag_NoKey(r, n, m, key) ==
  LET lid == nghbr(r, n, m).gid - gidslist(nghbr(r, n, m).rank)
  IN CreateMPITag(lid, nghbr(r, n, m).destn, 0)

\* bvals_cc.cpp:261-263: the tag of the message for direction n of block m
SendTag(r, n, m, key) ==
  LET lid == nghbr(r, n, m).gid - gidslist(nghbr(r, n, m).rank)
  IN CreateMPITag(lid, nghbr(r, n, m).destn, key)

\* the status flipped at the sending block's own index m
FlipStatus_OwnBlock(st, r, n, m) ==
  [st EXCEPT !.stat[nghbr(r, n, m).destn][m] = "received"]

\* the status flipped in the buffer of the sender's own direction n
FlipStatus_SameDir(st, r, n, m) ==
  LET mm == nghbr(r, n, m).gid - gids(r)
  IN [st EXCEPT !.stat[n][mm] = "received"]

\* bvals_cc.cpp:255-256: the receive status a same-rank copy marks received
FlipStatus(st, r, n, m) ==
  LET nn == nghbr(r, n, m).destn
      mm == nghbr(r, n, m).gid - gids(r)
  IN [st EXCEPT !.stat[nn][mm] = "received"]

\* a send loop that issues a message for a same-rank neighbour too
SendOne_AlsoLocal(f, r, n, m, key, st) ==
  IF nghbr(r, n, m).gid >= 0
  THEN [(IF nghbr(r, n, m).rank = r THEN FlipStatus(st, r, n, m) ELSE st)
          EXCEPT !.out[nghbr(r, n, m).rank] =
            Append(@, [tag |-> SendTag(r, n, m, key), data |-> sdat[f][r][n][m]])]
  ELSE st

\* bvals_cc.cpp:251-270: the body of the send loop for (m, n); st = [stat, out]
\* holds the receive statuses of the object and the messages issued, by rank
SendOne(f, r, n, m, key, st) ==
  IF nghbr(r, n, m).gid >= 0
  THEN IF nghbr(r, n, m).rank = r
       THEN FlipStatus(st, r, n, m)
       ELSE [st EXCEPT !.out[nghbr(r, n, m).rank] =
               Append(@, [tag |-> SendTag(r, n, m, key), data |-> sdat[f][r][n][m]])]
  ELSE st

RECURSIVE SendFrom(_, _, _, _, _)
SendFrom(f, r, x, key, st) ==
  IF x >= nmb(r) * nnghbr THEN st
  ELSE SendFrom(f, r, x + 1, key, SendOne(f, r, x % nnghbr, x \div nnghbr, key, st))

\* bvals_cc.cpp:249-272: for (m) for (n), in that order
SendLoop(f, r, key) == SendFrom(f, r, 0, key, [stat |-> bstat[f][r], out |-> chan[r]])

\* SendBuffersCC, first half (bvals_cc.cpp:183-237): the pack kernel
SendBuffersCC_Pack(f, r) ==
  /\ pc[f][r] = "ready"
  /\ LET b == PackKernel(f, r)
     IN /\ sdat' = [sdat EXCEPT ![f][r] = b.s]
        /\ rdat' = [rdat EXCEPT ![f][r] = b.rv]
  /\ pc' = [pc EXCEPT ![f][r] = "packed"]
  /\ UNCHANGED <<mesh, flds, a, bstat, req, chan, cyc, ret, prev, sret>>
  /\ UNCHANGED nonExchange

\* SendBuffersCC that reports incomplete while a message it sent is in flight
SendReturn_Pending(st) ==
  IF \E d \in DOMAIN st.out : st.out[d] # <<>> THEN "incomplete" ELSE "complete"

\* bvals_cc.cpp:274: the status SendBuffersCC returns after the send loop
SendReturn(st) == "complete"

\* SendBuffersCC, second half (bvals_cc.cpp:242-274): status flips and sends,
\* then return TaskStatus::complete
SendBuffersCC_Send(f, r) ==
  /\ pc[f][r] = "packed"
  /\ LET st == SendLoop(f, r, KeyOf(f))
     IN /\ bstat' = [bstat EXCEPT ![f][r] = st.stat]
        /\ chan' = [chan EXCEPT ![r] = st.out]
        /\ sret' = [sret EXCEPT ![f][r] = SendReturn(st)]
  /\ pc' = [pc EXCEPT ![f][r] = "sent"]
  /\ ret' = [ret EXCEPT ![f][r] = "none"]
  /\ UNCHANGED <<mesh, flds, a, sdat, rdat, req, cyc, prev>>
  /\ UNCHANGED nonExchange

\* ------------------------------------------------------ RecvBuffersCC
\* the check loop with bflag assigned, not only raised, by a same-rank test
CheckOne_Assign(st, r, n, m) ==
  IF nghbr(r, n, m).gid >= 0
  THEN IF nghbr(r, n, m).rank = r
       THEN [st EXCEPT !.bflag = (st.stat[n][m] = "waiting")]
       ELSE LET t == MPI_Test(st.rq[n][m])
            IN IF t.flag
               THEN [st EXCEPT !.rq[n][m] = t.req, !.stat[n][m] = "received"]
               ELSE [st EXCEPT !.rq[n][m] = t.req, !.bflag = TRUE]
  ELSE st

\* the check loop that looks at cross-rank neighbours only: a same-rank
\* buffer that is still waiting is let through
CheckOne_SkipLocal(st, r, n, m) ==
  IF nghbr(r, n, m).gid >= 0 /\ nghbr(r, n, m).rank # r
  THEN LET t == MPI_Test(st.rq[n][m])
       IN IF t.flag
          THEN [st EXCEPT !.rq[n][m] = t.req, !.stat[n][m] = "received"]
          ELSE [st EXCEPT !.rq[n][m] = t.req, !.bflag = TRUE]
  ELSE st

\* bvals_cc.cpp:303-316: the body of the check loop for (m, n);
\* st = [bflag, stat, rq]
CheckOne(st, r, n, m) ==
  IF nghbr(r, n, m).gid >= 0
  THEN IF nghbr(r, n, m).rank = r
       THEN [st EXCEPT !.bflag = @ \/ (st.stat[n][m] = "waiting")]
       ELSE LET t == MPI_Test(st.rq[n][m])
            IN IF t.flag
               THEN [st EXCEPT !.rq[n][m] = t.req, !.stat[n][m] = "received"]
               ELSE [st EXCEPT !.rq[n][m] = t.req, !.bflag = TRUE]
  ELSE st

RECURSIVE CheckFrom(_, _, _)
CheckFrom(r, x, st) ==
  IF x >= nmb(r) * nnghbr THEN st
  ELSE CheckFrom(r, x + 1, CheckOne(st, r, x % nnghbr, x \div nnghbr))

\* bvals_cc.cpp:289-318
CheckLoop(f, r) ==
  CheckFrom(r, 0, [bflag |-> FALSE, stat |-> bstat[f][r], rq |-> req[f][r]])

\* the unpack kernel accumulating into the cell
UnpackCell_Add(old, new) == old + new

\* bvals_cc.cpp:355: what the unpack kernel leaves in a cell
UnpackCell(old, new) == new

\* bvals_cc.cpp:331-357: one team of the unpack kernel
UnpackTeam(f, r, lr, arr) ==
  LET m == LeagueM(lr)
      n == LeagueN(lr)
      v == LeagueV(lr)
      ix == RecvIndex(n)
      T == TeamCells(ix)
  IN [arr EXCEPT ![m][v] =
        [c \in DOMAIN @ |->
           IF c \in T
           THEN UnpackCell(@[c], rdat[f][r][n][m][v][FlatIndex(ix, c[1], c[2], c[3])])
           ELSE @[c]]]

RECURSIVE UnpackFrom(_, _, _, _)
UnpackFrom(f, r, lr, arr) ==
  IF lr >= nmb(r) * nnghbr * NVar THEN arr
  ELSE UnpackFrom(f, r, lr + 1, UnpackTeam(f, r, lr, arr))

\* the unpack kernel run whatever bflag says
Unpacked_NoGate(f, r, bflag) == UnpackFrom(f, r, 0, a[f][r])

\* bvals_cc.cpp:321-359: return before unpacking when bflag is set
Unpacked(f, r, bflag) == IF bflag THEN a[f][r] ELSE UnpackFrom(f, r, 0, a[f][r])

\* bvals_cc.cpp:281-362
RecvBuffersCC(f, r) ==
  /\ pc[f][r] \in (IF mesh.early THEN {"posted", "ready"} ELSE {}) \cup {"sent", "done"}
  /\ LET st == CheckLoop(f, r)
     IN /\ bstat' = [bstat EXCEPT ![f][r] = st.stat]
        /\ req' = [req EXCEPT ![f][r] = st.rq]
        /\ a' = [a EXCEPT ![f][r] = Unpacked(f, r, st.bflag)]
        /\ ret' = [ret EXCEPT ![f][r] = IF st.bflag THEN "incomplete" ELSE "complete"]
        /\ pc' = [pc EXCEPT ![f][r] =
                    IF ~st.bflag /\ @ = "sent" THEN "done" ELSE @]
  /\ prev' = [prev EXCEPT ![f][r] = ret[f][r]]
  /\ UNCHANGED <<mesh, flds, sdat, rdat, chan, cyc, sret>>
  /\ UNCHANGED nonExchange

\* ------------------------------------------------ the rest of a cycle
\* The task that opens an exchange cycle is not part of the sources; the
\* specification has the status reset every cycle and the cross-rank receive
\* matched by (receiving block's local ID, receiving buffer index, key).
InitRecv(f, r) ==
  /\ pc[f][r] \in {"idle", "done"}
  /\ cyc[f][r] < mesh.maxc
  /\ bstat' = [bstat EXCEPT ![f][r] = [n \in Dirs |-> [m \in Blocks(r) |->
                 IF nghbr(r, n, m).gid >= 0 THEN "waiting" ELSE @[n][m]]]]
  /\ req' = [req EXCEPT ![f][r] = [n \in Dirs |-> [m \in Blocks(r) |->
                 IF nghbr(r, n, m).gid >= 0 /\ nghbr(r, n, m).rank # r
                 THEN "active" ELSE @[n][m]]]]
  /\ cyc' = [cyc EXCEPT ![f][r] = @ + 1]
  /\ pc' = [pc EXCEPT ![f][r] = "posted"]
  /\ ret' = [ret EXCEPT ![f][r] = "none"]
  /\ sret' = [sret EXCEPT ![f][r] = "none"]
  /\ UNCHANGED <<mesh, flds, a, sdat, rdat, chan, prev>>
  /\ UNCHANGED nonExchange

\* The time integrator (external) writes the interior cells of the cycle.
Update(f, r) ==
  /\ pc[f][r] = "posted"
  /\ a' = [a EXCEPT ![f][r] = [m \in Blocks(r) |-> [v \in VarIds |-> [c \in Cells |->
              IF c \in Interior THEN Val(f, cyc[f][r], mbgid(r, m), v, c)
              ELSE @[m][v][c]]]]]
  /\ pc' = [pc EXCEPT ![f][r] = "ready"]
  /\ UNCHANGED <<mesh, flds, sdat, rdat, bstat, req, chan, cyc, ret, prev, sret>>
  /\ UNCHANGED nonExchange

\* The tag of the receive posted for buffer n of block m of field f.
RecvTag(f, n, m) == CreateMPITag(m, n, KeyOf(f))

\* The transport matches the oldest message from the neighbour's rank that
\* carries the tag of an active receive, and writes it into the buffer.
Deliver(f, r, n, m) ==
  /\ req[f][r][n][m] = "active"
  /\ LET src == nghbr(r, n, m).rank
         x == FirstWithTag(chan[src][r], RecvTag(f, n, m))
     IN /\ x > 0
        /\ rdat' = [rdat EXCEPT ![f][r][n][m] = chan[src][r][x].data]
        /\ chan' = [chan EXCEPT ![src][r] = RemoveAt(@, x)]
  /\ req' = [req EXCEPT ![f][r][n][m] = "done"]
  /\ UNCHANGED <<mesh, flds, a, sdat, bstat, pc, cyc, ret, prev, sret>>
  /\ UNCHANGED nonExchange

Next ==
  \/ \E f \in flds, r \in ActiveRanks : InitRecv(f, r)
  \/ \E f \in flds, r \in ActiveRanks : Update(f, r)
  \/ \E f \in flds, r \in ActiveRanks : SendBuffersCC_Pack(f, r)
  \/ \E f \in flds, r \in ActiveRanks : SendBuffersCC_Send(f, r)
  \/ \E f \in flds, r \in ActiveRanks : RecvBuffersCC(f, r)
  \/ \E f \in flds, r \in ActiveRanks, n \in Dirs : \E m \in Blocks(r) : Deliver(f, r, n, m)

Spec == Init /\ [][Next]_vars

\* The scheduler polls RecvBuffersCC, after the SendBuffersCC of the cycle,
\* until it returns complete, and the transport delivers every message whose
\* receive is posted.
FairSpec ==
  /\ InitWith({1}, Meshes(MaxCycle, FALSE))
  /\ [][Next]_vars
  /\ \A r \in Ranks : WF_vars(r \in ActiveRanks /\ RecvBuffersCC(1, r))
  /\ \A r \in Ranks :
        WF_vars(r \in ActiveRanks /\
                \E n \in Dirs : \E m \in Blocks(r) : Deliver(1, r, n, m))

\* Two fields exchanged at the same time, each with its own key.
SpecKeys ==
  /\ InitWith({1, 2}, {ms \in Meshes(KeysMaxCycle, FALSE) : ms.nb <= 2 /\ ms.nb0 = 1 /\ ~ms.per})
  /\ [][Next]_vars

\* ------------------------------------------- allocation of the buffers
MaxNG == 2
MaxNX == 3

\* The index geometry of a mesh of dim dimensions with ng ghost cells and
\* n1 x n2 x n3 interior cells per MeshBlock: an active dimension starts at
\* ng, an inactive one has the single index 0; nnghbr is 2, 8 or 26.
Geometry(dim, ng, n1, n2, n3) ==
  [ng |-> ng, is |-> ng, ie |-> ng + n1 - 1,
   js |-> IF dim > 1 THEN ng ELSE 0, je |-> IF dim > 1 THEN ng + n2 - 1 ELSE 0,
   ks |-> IF dim > 2 THEN ng ELSE 0, ke |-> IF dim > 2 THEN ng + n3 - 1 ELSE 0,
   nnghbr |-> CASE dim = 1 -> 2 [] dim = 2 -> 8 [] dim = 3 -> 26]

Geometries ==
  {Geometry(dim, ng, n1, n2, n3) :
     dim \in 1..3, ng \in 1..MaxNG, n1 \in 1..MaxNX, n2 \in 1..MaxNX, n3 \in 1..MaxNX}

\* bvals_cc.cpp:71-149: the buffers AllocateBuffersCC initialises
Initialised(nn) == {n \in 0..25 : n < 2 \/ (nn > 2 /\ n < 8) \/ (nn > 2 /\ nn > 8)}

\* bvals_cc.cpp:43-161
AllocateBuffersCC ==
  /\ geom # <<>>
  /\ send_index = <<>>
  /\ send_index' = [n \in Initialised(geom.nnghbr) |-> SendIndexOf(geom, n)]
  /\ recv_index' = [n \in Initialised(geom.nnghbr) |-> RecvIndexOf(geom, n)]
  /\ UNCHANGED <<geom, xvars, hvars, tvars>>

\* The buffer of the neighbour that faces buffer n (destn of the neighbour
\* table): the buffer of the opposite face, edge or corner.
Opposite(n) ==
  CASE n < 4 \/ n = 8 \/ n = 9 -> IF n % 2 = 0 THEN n + 1 ELSE n - 1
    [] n >= 4 /\ n <= 7 -> 11 - n
    [] n >= 10 /\ n <= 13 -> 23 - n
    [] n >= 14 /\ n <= 17 -> 31 - n
    [] n >= 18 -> 43 - n

NoExchange ==
  /\ mesh = <<>> /\ flds = {} /\ a = <<>> /\ sdat = <<>> /\ rdat = <<>>
  /\ bstat = <<>> /\ req = <<>> /\ chan = <<>> /\ pc = <<>> /\ cyc = <<>>
  /\ ret = <<>> /\ prev = <<>> /\ sret = <<>>

InitAlloc ==
  /\ geom \in Geometries
  /\ send_index = <<>>
  /\ recv_index = <<>>
  /\ NoExchange
  /\ NoHydro
  /\ NoTeam

NextAlloc == AllocateBuffersCC

SpecAlloc == InitAlloc /\ [][NextAlloc]_vars

\* ------------------------------------------------------ HydroDivFlux
\* (src/unnamed/part_000, calculate_divflux.cpp)
HNX == 2
NHydro == 1
MaxAmp == 1

\* the index of the velocity component normal to the x1, x2, x3 faces
IVX == 1
IVY == 2
IVZ == 3

\* part_000:38
nhydro == NHydro
HVars == 0..(nhydro - 1)

\* the values of recon_method_ and rsolver_method_; "other" is a value the
\* switch statements have no case for
ReconMethods == {"dc", "plm", "ppm", "other"}
Solvers == {"advect", "llf", "hllc", "roe", "other"}

\* the number of ghost cells the stencil of a reconstruction method needs at
\* the faces is-1 and ie+1
NgOf(recon) == IF recon = "ppm" THEN 3 ELSE 2

\* part_000:32-36 and 50, 113, 193: pmb->mb_cells of a mesh of h.dim
\* dimensions with h.nx interior cells per active dimension
mb_cells(h) ==
  [ng |-> h.ng, nx1 |-> h.nx,
   is |-> h.ng, ie |-> h.ng + h.nx - 1,
   js |-> IF h.dim > 1 THEN h.ng ELSE 0, je |-> IF h.dim > 1 THEN h.ng + h.nx - 1 ELSE 0,
   ks |-> IF h.dim > 2 THEN h.ng ELSE 0, ke |-> IF h.dim > 2 THEN h.ng + h.nx - 1 ELSE 0,
   dx1 |-> 1, dx2 |-> 2, dx3 |-> 4]

\* part_000:36
mb_ncells1(h) == mb_cells(h).nx1 + 2 * mb_cells(h).ng

\* part_000:107, 187
nx2gt1(h) == h.dim > 1
nx3gt1(h) == h.dim > 2

\* the cells (k,j,i) of w0 and divf, ghost cells included
HCells(h) ==
  LET nc == h.nx + 2 * h.ng
  IN {<<k, j, i>> : k \in 0..(IF h.dim > 2 THEN nc - 1 ELSE 0),
                    j \in 0..(IF h.dim > 1 THEN nc - 1 ELSE 0),
                    i \in 0..(nc - 1)}

HInterior(h) ==
  LET mb == mb_cells(h)
  IN {c \in HCells(h) : /\ c[1] >= mb.ks /\ c[1] <= mb.ke
                        /\ c[2] >= mb.js /\ c[2] <= mb.je
                        /\ c[3] >= mb.is /\ c[3] <= mb.ie}

\* The primitive variables handed to the call: uniform when h.amp = 0.
W0Of(h) ==
  [n \in HVars |-> [c \in HCells(h) |->
     2 * (h.base + n + h.amp * (c[3] * c[3] + 2 * c[2] * c[2] + 3 * c[1] * c[1]
                                + c[1] * c[2] * c[3]))]]

\* What divf holds when the call starts: zero, or what an earlier stage left.
Divf0Of(h) ==
  [n \in HVars |-> [c \in HCells(h) |->
     h.old * (1000 + 100 * c[1] + 10 * c[2] + c[3] + n)]]

\* What a scratch array holds before it is first written: team scratch memory
\* is not initialised; h.garb picks its content.
Garbage(h, b) ==
  [n \in HVars |-> [i \in 0..(mb_ncells1(h) - 1) |-> h.garb * 4 * (1 + b + n + 3 * i * i)]]

\* ---- the reconstruction kernels and the Riemann solvers (reconstruct/*.cpp,
\* hydro/rsolver/*.cpp) are not part of the sources: each is a function of
\* the stencil (of the two states) at one cell (face)
Shift(c, d, o) ==
  CASE d = 1 -> <<c[1], c[2], c[3] + o>>
    [] d = 2 -> <<c[1], c[2] + o, c[3]>>
    [] d = 3 -> <<c[1] + o, c[2], c[3]>>

MinMod(d1, d2) ==
  IF d1 * d2 <= 0 THEN 0
  ELSE IF d1 > 0 THEN (IF d1 < d2 THEN d1 ELSE d2) \div 2
       ELSE 0 - ((IF d1 > d2 THEN 0 - d1 ELSE 0 - d2) \div 2)

\* the state at the upper face of cell c in direction d (qL of face + 1)
ReconL(method, q, c, d) ==
  CASE method = "dc" -> q[c]
    [] method = "plm" ->
         q[c] + MinMod(q[c] - q[Shift(c, d, -1)], q[Shift(c, d, 1)] - q[c])
    [] method = "ppm" ->
         q[c] + MinMod(q[c] - q[Shift(c, d, -1)], q[Shift(c, d, 1)] - q[c])
              + MinMod(q[Shift(c, d, -1)] - q[Shift(c, d, -2)],
                       q[Shift(c, d, 2)] - q[Shift(c, d, 1)])

\* the state at the lower face of cell c in direction d (qR of the face)
ReconR(method, q, c, d) ==
  CASE method = "dc" -> q[c]
    [] method = "plm" ->
         q[c] - MinMod(q[c] - q[Shift(c, d, -1)], q[Shift(c, d, 1)] - q[c])
    [] method = "ppm" ->
         q[c] - MinMod(q[c] - q[Shift(c, d, -1)], q[Shift(c, d, 1)] - q[c])
              - MinMod(q[Shift(c, d, -1)] - q[Shift(c, d, -2)],
                       q[Shift(c, d, 2)] - q[Shift(c, d, 1)])

\* the flux of a variable at a face with left state l and right state r
FluxOf(solver, ivx, l, r) ==
  CASE solver = "advect" -> 4 * ivx * l
    [] solver = "llf" -> 4 * (ivx * (l + r) - (r - l))
    [] solver = "hllc" -> 4 * (ivx * (l + r) + l)
    [] solver = "roe" -> 4 * (ivx * (l + r) - 2 * (r - l))

\* ---- scratch memory of one team: mem[b] is the b-th array allocated from
\* the team scratch (part_000:55-57, 118-121, 198-201), view[x] the array the
\* AthenaScratch2D object x refers to
TeamScratch(h, names) ==
  [view |-> [x \in DOMAIN names |-> names[x]],
   mem |-> [b \in 0..(Cardinality(DOMAIN names) - 1) |-> Garbage(h, b)]]

\* the array behind the view x
Arr(st, x) == st.mem[st.view[x]]

\* part_000:60-73: the switch on recon_method of the x1 sweep, called with
\* (il, iu) = (is-1, ie+1): qR[i] = wr(n,i) and qL[i+1] = wl(n,i+1) for i in
\* il..iu; no case for other values
ReconstructX1(method, k, j, il, iu, q, st, wl, wr) ==
  IF method \notin {"dc", "plm", "ppm"} THEN st
  ELSE [st EXCEPT !.mem = [b \in DOMAIN st.mem |->
          IF b = st.view[wl]
          THEN [n \in HVars |-> [i \in DOMAIN st.mem[b][n] |->
                  IF (i - 1) \in il..iu THEN ReconL(method, q[n], <<k, j, i - 1>>, 1)
                  ELSE st.mem[b][n][i]]]
          ELSE IF b = st.view[wr]
          THEN [n \in HVars |-> [i \in DOMAIN st.mem[b][n] |->
                  IF i \in il..iu THEN ReconR(method, q[n], <<k, j, i>>, 1)
                  ELSE st.mem[b][n][i]]]
          ELSE st.mem[b]]]

\* part_000:130-143 (d = 2) and 209-222 (d = 3): the switch on recon_method
\* of the x2 and x3 sweeps: for i in il..iu, wr(n,i) is qR of plane (k,j) and
\* wl(n,i) is qL of the next plane in direction d
ReconstructX23(method, d, k, j, il, iu, q, st, wl, wr) ==
  IF method \notin {"dc", "plm", "ppm"} THEN st
  ELSE [st EXCEPT !.mem = [b \in DOMAIN st.mem |->
          IF b = st.view[wl]
          THEN [n \in HVars |-> [i \in DOMAIN st.mem[b][n] |->
                  IF i \in il..iu THEN ReconL(method, q[n], <<k, j, i>>, d)
                  ELSE st.mem[b][n][i]]]
          ELSE IF b = st.view[wr]
          THEN [n \in HVars |-> [i \in DOMAIN st.mem[b][n] |->
                  IF i \in il..iu THEN ReconR(method, q[n], <<k, j, i>>, d)
                  ELSE st.mem[b][n][i]]]
          ELSE st.mem[b]]]

\* part_000:78-94, 148-164, 227-243: the switch on rsolver_method: the flux
\* at the faces il..iu from wl and wr into flx; no case for other values
RiemannSolve(solver, il, iu, ivx, st, wl, wr, flx) ==
  IF solver \notin {"advect", "llf", "hllc", "roe"} THEN st
  ELSE [st EXCEPT !.mem[st.view[flx]] =
          [n \in HVars |-> [i \in DOMAIN @[n] |->
             IF i \in il..iu
             THEN FluxOf(solver, ivx, Arr(st, wl)[n][i], Arr(st, wr)[n][i])
             ELSE @[n][i]]]]

\* dF/dx1 assigned to every row j of plane k
DiffX1_AllRows(h, st, k, j, d) ==
  LET mb == mb_cells(h)
  IN [n \in HVars |-> [c \in DOMAIN d[n] |->
        IF c[1] = k /\ c[3] >= mb.is /\ c[3] <= mb.ie
        THEN (Arr(st, "uflux")[n][c[3] + 1] - Arr(st, "uflux")[n][c[3]]) \div mb.dx1
        ELSE d[n][c]]]

\* dF/dx1 assigned over [is,ie+1], one cell into the ghost cells
DiffX1_PastEnd(h, st, k, j, d) ==
  LET mb == mb_cells(h)
  IN [n \in HVars |-> [c \in DOMAIN d[n] |->
        IF c[1] = k /\ c[2] = j /\ c[3] >= mb.is /\ c[3] <= mb.ie + 1
        THEN (Arr(st, "uflux")[n][c[3] + 1] - Arr(st, "uflux")[n][c[3]]) \div mb.dx1
        ELSE d[n][c]]]

\* part_000:98-103: dF/dx1 of row (k,j), assigned to divf
DiffX1(h, st, k, j, d) ==
  LET mb == mb_cells(h)
  IN [n \in HVars |-> [c \in DOMAIN d[n] |->
        IF c[1] = k /\ c[2] = j /\ c[3] >= mb.is /\ c[3] <= mb.ie
        THEN (Arr(st, "uflux")[n][c[3] + 1] - Arr(st, "uflux")[n][c[3]]) \div mb.dx1
        ELSE d[n][c]]]

\* the x1 task with the fluxes computed over [is,ie] only
X1Team_ShortFlux(h, q, k, j, d) ==
  LET mb == mb_cells(h)
      s0 == TeamScratch(h, [wl |-> 0, wr |-> 1, uflux |-> 2])
      s1 == ReconstructX1(h.recon, k, j, mb.is - 1, mb.ie + 1, q, s0, "wl", "wr")
      s2 == RiemannSolve(h.solver, mb.is, mb.ie, IVX, s1, "wl", "wr", "uflux")
  IN DiffX1(h, s2, k, j, d)

\* part_000:53-105: the outer task (k,j) of the x1 sweep
X1Team(h, q, k, j, d) ==
  LET mb == mb_cells(h)
      s0 == TeamScratch(h, [wl |-> 0, wr |-> 1, uflux |-> 2])
      s1 == ReconstructX1(h.recon, k, j, mb.is - 1, mb.ie + 1, q, s0, "wl", "wr")
      s2 == RiemannSolve(h.solver, mb.is, mb.ie + 1, IVX, s1, "wl", "wr", "uflux")
  IN DiffX1(h, s2, k, j, d)

\* the outer tasks of a sweep, one after the other
RECURSIVE X1From(_, _, _, _)
X1From(h, q, t, d) ==
  LET mb == mb_cells(h)
      nj == mb.je - mb.js + 1
      nk == mb.ke - mb.ks + 1
  IN IF t >= nk * nj THEN d
     ELSE X1From(h, q, t + 1, X1Team(h, q, mb.ks + (t \div nj), mb.js + (t % nj), d))

\* part_000:52-106
SweepX1(h, q, d) == X1From(h, q, 0, d)

\* the assignment of one scratch array to another that copies the elements
ViewAssign_Deep(st, dst, src) == [st EXCEPT !.mem[st.view[dst]] = Arr(st, src)]

\* part_000:126, 182, 206, 261: wl_flx = wl_jp1, uflux_jm1 = wl_flx.  An
\* AthenaScratch2D is a view of team scratch memory (it is constructed from
\* member.team_scratch() and sized by shmem_size()); assigning a view makes
\* dst refer to the array of src and copies no element.
ViewAssign(st, dst, src) == [st EXCEPT !.view[dst] = st.view[src]]

\* part_000:170-177 (d = 2) and 249-256 (d = 3): the flux difference of plane
\* x is added to divf of the plane x-1
AddDiff(h, st, d, t, x) ==
  LET mb == mb_cells(h)
      dx == IF d = 2 THEN mb.dx2 ELSE mb.dx3
      tk == IF d = 2 THEN t ELSE x - 1
      tj == IF d = 2 THEN x - 1 ELSE t
  IN [n \in HVars |-> [c \in DOMAIN st.d[n] |->
        IF c[1] = tk /\ c[2] = tj /\ c[3] >= mb.is /\ c[3] <= mb.ie
        THEN st.d[n][c] + (Arr(st, "wl_flx")[n][c[3]] - Arr(st, "uflux_m1")[n][c[3]]) \div dx
        ELSE st.d[n][c]]]

\* part_000:123-184 (d = 2: outer task t = k, iteration x = j) and 203-263
\* (d = 3: outer task t = j, iteration x = k): one iteration of the sliding
\* window; wl_p1 is wl_jp1 (wl_kp1), uflux_m1 is uflux_jm1 (uflux_km1).
\* The log keeps what the iteration found in wl_p1, what the Riemann solve
\* read as left state, the flux it left and the flux the difference subtracts.
SlideIter(h, q, d, t, x, st) ==
  LET mb == mb_cells(h)
      lo == IF d = 2 THEN mb.js ELSE mb.ks
      hi == IF d = 2 THEN mb.je ELSE mb.ke
      k == IF d = 2 THEN t ELSE x
      j == IF d = 2 THEN x ELSE t
      ivx == IF d = 2 THEN IVY ELSE IVZ
      s1 == IF x > lo - 1 THEN ViewAssign(st, "wl_flx", "wl_p1") ELSE st
      s2 == ReconstructX23(h.recon, d, k, j, mb.is, mb.ie, q, s1, "wl_p1", "wr")
      s3 == IF x > lo - 1
            THEN RiemannSolve(h.solver, mb.is, mb.ie, ivx, s2, "wl_flx", "wr", "wl_flx")
            ELSE s2
      s4 == IF x > lo THEN [s3 EXCEPT !.d = AddDiff(h, s3, d, t, x)] ELSE s3
      s5 == IF x > lo - 1 /\ x < hi + 1 THEN ViewAssign(s4, "uflux_m1", "wl_flx") ELSE s4
  IN [s5 EXCEPT !.log = Append(@, [x |-> x,
                                   kept |-> Arr(st, "wl_p1"),
                                   left |-> Arr(s2, "wl_flx"),
                                   right |-> Arr(s2, "wr"),
                                   flux |-> Arr(s3, "wl_flx"),
                                   sub |-> Arr(s3, "uflux_m1")])]

\* part_000:123, 203: for (x = lo-1; x <= hi+1; ++x)
RECURSIVE SlideFrom(_, _, _, _, _, _)
SlideFrom(h, q, d, t, x, st) ==
  LET mb == mb_cells(h)
      hi == IF d = 2 THEN mb.je ELSE mb.ke
  IN IF x > hi + 1 THEN st
     ELSE SlideFrom(h, q, d, t, x + 1, SlideIter(h, q, d, t, x, st))

\* part_000:116-185 (d = 2) and 196-264 (d = 3): one outer task
SlideTeam(h, q, d, t, dv) ==
  LET mb == mb_cells(h)
      lo == IF d = 2 THEN mb.js ELSE mb.ks
      sc == TeamScratch(h, [wl_flx |-> 0, wr |-> 1, wl_p1 |-> 2, uflux_m1 |-> 3])
  IN SlideFrom(h, q, d, t, lo - 1,
               [view |-> sc.view, mem |-> sc.mem, d |-> dv, log |-> <<>>])

\* the outer tasks of the sweep, one after the other: k in ks..ke for the x2
\* sweep, j in js..je for the x3 sweep
RECURSIVE SlideTeams(_, _, _, _, _)
SlideTeams(h, q, d, t, acc) ==
  LET mb == mb_cells(h)
      last == IF d = 2 THEN mb.ke ELSE mb.je
  IN IF t > last THEN acc
     ELSE LET r == SlideTeam(h, q, d, t, acc.d)
          IN SlideTeams(h, q, d, t + 1, [d |-> r.d, win |-> acc.win @@ (t :> r.log)])

\* part_000:115-186
SweepX2(h, q, dv) == SlideTeams(h, q, 2, mb_cells(h).ks, [d |-> dv, win |-> <<>>])

\* part_000:195-265
SweepX3(h, q, dv) == SlideTeams(h, q, 3, mb_cells(h).js, [d |-> dv, win |-> <<>>])

\* ---- the call
\* the return after the x1 sweep taken on the test of the x3 extent
ReturnAfterX1_NX3(h) == ~nx3gt1(h)

\* part_000:107: if (!(pmesh_->nx2gt1)) return TaskStatus::complete
ReturnAfterX1(h) == ~nx2gt1(h)

\* part_000:187: if (!(pmesh_->nx3gt1)) return TaskStatus::complete
ReturnAfterX2(h) == ~nx3gt1(h)

\* part_000:30-107: the x1 sweep; a 1D mesh returns after it
HydroDivFlux_X1 ==
  /\ hpc = "call"
  /\ divf' = SweepX1(hyd, w0, divf)
  /\ hlog' = Append(hlog, 1)
  /\ IF ReturnAfterX1(hyd)
     THEN hpc' = "done" /\ hret' = "complete"
     ELSE hpc' = "x2" /\ hret' = hret
  /\ UNCHANGED <<hyd, w0, win, xvars, gvars, tvars>>

\* part_000:109-187: the x2 sweep; a 2D mesh returns after it
HydroDivFlux_X2 ==
  /\ hpc = "x2"
  /\ LET r == SweepX2(hyd, w0, divf)
     IN divf' = r.d /\ win' = r.win
  /\ hlog' = Append(hlog, 2)
  /\ IF ReturnAfterX2(hyd)
     THEN hpc' = "done" /\ hret' = "complete"
     ELSE hpc' = "x3" /\ hret' = hret
  /\ UNCHANGED <<hyd, w0, xvars, gvars, tvars>>

\* part_000:189-267: the x3 sweep
HydroDivFlux_X3 ==
  /\ hpc = "x3"
  /\ LET r == SweepX3(hyd, w0, divf)
     IN divf' = r.d /\ win' = r.win
  /\ hlog' = Append(hlog, 3)
  /\ hpc' = "done"
  /\ hret' = "complete"
  /\ UNCHANGED <<hyd, w0, xvars, gvars, tvars>>

\* the Hydro objects a call is made on
HydroConfigs ==
  {[dim |-> dim, nx |-> HNX, ng |-> NgOf(rc), recon |-> rc, solver |-> sv,
    base |-> 1, amp |-> am, old |-> od, garb |-> gb] :
     dim \in 1..3, rc \in ReconMethods, sv \in Solvers,
     am \in 0..MaxAmp, od \in 0..1, gb \in 0..1}

InitHydro ==
  /\ hyd \in HydroConfigs
  /\ w0 = W0Of(hyd)
  /\ divf = Divf0Of(hyd)
  /\ hpc = "call"
  /\ hlog = <<>>
  /\ hret = "none"
  /\ win = <<>>
  /\ NoExchange
  /\ NoAllocation
  /\ NoTeam

NextHydro ==
  \/ HydroDivFlux_X1
  \/ HydroDivFlux_X2
  \/ HydroDivFlux_X3

SpecHydro == InitHydro /\ [][NextHydro]_vars

\* --------------------------------------- the outer tasks of one sweep
\* par_for_outer hands the outer tasks of a sweep to teams that run in any
\* order; every team has scratch arrays of its own, and all write divf.  hyd
\* holds the sweep (1, 2, 3) besides the configuration, hlog the tasks that
\* have run, in the order they ran.

\* part_000:52 (ks..ke x js..je), 115 (ks..ke), 195 (js..je): the outer tasks
OuterTasks(h) ==
  LET mb == mb_cells(h)
  IN CASE h.sweep = 1 -> 0..((mb.ke - mb.ks + 1) * (mb.je - mb.js + 1) - 1)
       [] h.sweep = 2 -> mb.ks..mb.ke
       [] h.sweep = 3 -> mb.js..mb.je

\* the (k, j) of task t of the x1 sweep
TaskK(h, t) == mb_cells(h).ks + (t \div (mb_cells(h).je - mb_cells(h).js + 1))
TaskJ(h, t) == mb_cells(h).js + (t % (mb_cells(h).je - mb_cells(h).js + 1))

Ran == {hlog[x] : x \in DOMAIN hlog}

\* part_000:53-105: one outer task of the x1 sweep
RunX1Task(t) ==
  /\ hpc = "tasks" /\ hyd.sweep = 1
  /\ t \in OuterTasks(hyd) \ Ran
  /\ divf' = X1Team(hyd, w0, TaskK(hyd, t), TaskJ(hyd, t), divf)
  /\ hlog' = Append(hlog, t)
  /\ UNCHANGED <<hyd, w0, hpc, hret, win, xvars, gvars, tvars>>

\* part_000:116-185: one outer task of the x2 sweep
RunX2Task(t) ==
  /\ hpc = "tasks" /\ hyd.sweep = 2
  /\ t \in OuterTasks(hyd) \ Ran
  /\ divf' = SlideTeam(hyd, w0, 2, t, divf).d
  /\ hlog' = Append(hlog, t)
  /\ UNCHANGED <<hyd, w0, hpc, hret, win, xvars, gvars, tvars>>

\* part_000:196-264: one outer task of the x3 sweep
RunX3Task(t) ==
  /\ hpc = "tasks" /\ hyd.sweep = 3
  /\ t \in OuterTasks(hyd) \ Ran
  /\ divf' = SlideTeam(hyd, w0, 3, t, divf).d
  /\ hlog' = Append(hlog, t)
  /\ UNCHANGED <<hyd, w0, hpc, hret, win, xvars, gvars, tvars>>

\* divf and the scratch memory hold what earlier work left there
TaskConfigs ==
  {[dim |-> h.dim, nx |-> h.nx, ng |-> h.ng, recon |-> h.recon, solver |-> h.solver,
    base |-> h.base, amp |-> h.amp, old |-> h.old, garb |-> h.garb, sweep |-> d] :
     h \in {g \in HydroConfigs : g.old = 1 /\ g.garb = 1}, d \in 1..3}

InitTasks ==
  /\ hyd \in {h \in TaskConfigs : h.sweep <= h.dim}
  /\ w0 = W0Of(hyd)
  /\ divf = Divf0Of(hyd)
  /\ hpc = "tasks"
  /\ hlog = <<>>
  /\ hret = "none"
  /\ win = <<>>
  /\ NoExchange
  /\ NoAllocation
  /\ NoTeam

NextTasks ==
  \/ \E t \in OuterTasks(hyd) : RunX1Task(t)
  \/ \E t \in OuterTasks(hyd) : RunX2Task(t)
  \/ \E t \in OuterTasks(hyd) : RunX3Task(t)

SpecTasks == InitTasks /\ [][NextTasks]_vars

\* ---------------------------------------------- the threads of a team
\* One outer task of the x1 sweep (team.d = 1) or of the x2 / x3 sweep
\* (team.d = 2, 3) run by team.nth threads.  par_for_inner hands the indices
\* il..iu out to the threads of the team, strided or in chunks.
MaxThreads == 2
TNX == 2

\* the indices of il..iu that thread th runs
Mine(tm, th, il, iu) ==
  LET chunk == ((iu - il + 1) + tm.nth - 1) \div tm.nth
  IN {i \in il..iu : IF tm.strided THEN (i - il) % tm.nth = th
                     ELSE (i - il) \div chunk = th}

Threads(tm) == 0..(tm.nth - 1)

\* the first and last interior index of the direction a sliding sweep runs in
SlideLo(tm) == IF tm.d = 2 THEN mb_cells(tm).js ELSE mb_cells(tm).ks
SlideHi(tm) == IF tm.d = 2 THEN mb_cells(tm).je ELSE mb_cells(tm).ke

Wr(th, arr, I) == {[th |-> th, arr |-> arr, i |-> i, w |-> TRUE] : i \in I}
Rd(th, arr, I) == {[th |-> th, arr |-> arr, i |-> i, w |-> FALSE] : i \in I}

\* a thread that goes on to the Riemann solve without the barrier
AfterRecon_NoBarrier(x) == "riemann"

\* part_000:75, 144, 223: member.team_barrier() after the reconstruction
AfterRecon(x) == "b1"

\* part_000:95, 166, 245: member.team_barrier() after the Riemann solve
AfterRiemann(x) == "b2"

\* part_000:104, 178, 257: member.team_barrier() after the differencing
AfterDiff(x) == "b3"

\* part_000:60-73 (x1): thread th writes wr(n,i) and wl(n,i+1) for its i of
\* is-1..ie+1; 125-143, 205-222 (x2, x3): after the first iteration wl_flx is
\* assigned wl_p1, then th writes wl_p1(n,i) and wr(n,i) for its i of is..ie
TeamReconstruct(th) ==
  /\ tpc[th] = "recon"
  /\ LET mb == mb_cells(team)
         v == IF team.d > 1 /\ tx[th] > SlideLo(team) - 1
              THEN ViewAssign([view |-> tview[th]], "wl_flx", "wl_p1").view
              ELSE tview[th]
     IN /\ tview' = [tview EXCEPT ![th] = v]
        /\ tacc' = tacc \cup
             (IF team.d = 1
              THEN Wr(th, v["wl"], {i + 1 : i \in Mine(team, th, mb.is - 1, mb.ie + 1)})
                   \cup Wr(th, v["wr"], Mine(team, th, mb.is - 1, mb.ie + 1))
              ELSE Wr(th, v["wl_p1"], Mine(team, th, mb.is, mb.ie))
                   \cup Wr(th, v["wr"], Mine(team, th, mb.is, mb.ie)))
  /\ tpc' = [tpc EXCEPT ![th] = AfterRecon(tx[th])]
  /\ UNCHANGED <<team, tx, xvars, gvars, hvars>>

\* part_000:78-94 (x1): th reads wl(n,i), wr(n,i) and writes uflux(n,i) for
\* its i of is..ie+1; 147-165, 226-244 (x2, x3): unless in the first
\* iteration, th reads wl_flx(n,i), wr(n,i) and writes wl_flx(n,i)
TeamRiemann(th) ==
  /\ tpc[th] = "riemann"
  /\ LET mb == mb_cells(team)
         v == tview[th]
     IN tacc' = tacc \cup
          (IF team.d = 1
           THEN Rd(th, v["wl"], Mine(team, th, mb.is, mb.ie + 1))
                \cup Rd(th, v["wr"], Mine(team, th, mb.is, mb.ie + 1))
                \cup Wr(th, v["uflux"], Mine(team, th, mb.is, mb.ie + 1))
           ELSE IF tx[th] > SlideLo(team) - 1
           THEN Rd(th, v["wl_flx"], Mine(team, th, mb.is, mb.ie))
                \cup Rd(th, v["wr"], Mine(team, th, mb.is, mb.ie))
                \cup Wr(th, v["wl_flx"], Mine(team, th, mb.is, mb.ie))
           ELSE {})
  /\ tpc' = [tpc EXCEPT ![th] = AfterRiemann(tx[th])]
  /\ UNCHANGED <<team, tx, tview, xvars, gvars, hvars>>

\* part_000:98-103 (x1): th reads uflux(n,i+1), uflux(n,i) and writes divf
\* for its i of is..ie; 170-177, 249-256 (x2, x3): from the third iteration
\* on, th reads wl_flx(n,i), uflux_m1(n,i) and adds to divf
TeamDiff(th) ==
  /\ tpc[th] = "diff"
  /\ LET mb == mb_cells(team)
         v == tview[th]
         I == Mine(team, th, mb.is, mb.ie)
     IN tacc' = tacc \cup
          (IF team.d = 1
           THEN Rd(th, v["uflux"], {i + 1 : i \in I}) \cup Rd(th, v["uflux"], I)
                \cup Wr(th, "divf", I)
           ELSE IF tx[th] > SlideLo(team)
           THEN Rd(th, v["wl_flx"], I) \cup Rd(th, v["uflux_m1"], I) \cup Wr(th, "divf", I)
           ELSE {})
  /\ tpc' = [tpc EXCEPT ![th] = AfterDiff(tx[th])]
  /\ UNCHANGED <<team, tx, tview, xvars, gvars, hvars>>

\* part_000:105 (x1): the task ends; 180-184, 259-263 (x2, x3): uflux_m1 is
\* assigned wl_flx, and the loop goes on to the next iteration
TeamRoll(th) ==
  /\ tpc[th] = "roll"
  /\ tview' = [tview EXCEPT ![th] =
                 IF team.d > 1 /\ tx[th] > SlideLo(team) - 1 /\ tx[th] < SlideHi(team) + 1
                 THEN ViewAssign([view |-> @], "uflux_m1", "wl_flx").view ELSE @]
  /\ tx' = [tx EXCEPT ![th] = @ + 1]
  /\ tpc' = [tpc EXCEPT ![th] =
               IF team.d = 1 \/ tx[th] + 1 > SlideHi(team) + 1 THEN "end" ELSE "recon"]
  /\ UNCHANGED <<team, tacc, xvars, gvars, hvars>>

\* member.team_barrier(): when every thread of the team has arrived, all go on
team_barrier(b) ==
  /\ \A th \in Threads(team) : tpc[th] = b
  /\ tpc' = [th \in Threads(team) |->
               CASE b = "b1" -> "riemann" [] b = "b2" -> "diff" [] b = "b3" -> "roll"]
  /\ tacc' = {}
  /\ UNCHANGED <<team, tx, tview, xvars, gvars, hvars>>

Teams ==
  {[d |-> d, dim |-> d, ng |-> 2, nx |-> nx, nth |-> nth, strided |-> sd] :
     d \in 1..3, nx \in 1..TNX, nth \in 1..MaxThreads, sd \in BOOLEAN}

InitTeam ==
  /\ team \in Teams
  /\ tpc = [th \in Threads(team) |-> "recon"]
  /\ tx = [th \in Threads(team) |-> IF team.d = 1 THEN 0 ELSE SlideLo(team) - 1]
  /\ tview = [th \in Threads(team) |->
                IF team.d = 1 THEN [wl |-> "wl", wr |-> "wr", uflux |-> "uflux"]
                ELSE [wl_flx |-> "wl_flx", wr |-> "wr", wl_p1 |-> "wl_p1",
                      uflux_m1 |-> "uflux_m1"]]
  /\ tacc = {}
  /\ NoExchange
  /\ NoAllocation
  /\ NoHydro

NextTeam ==
  \/ \E th \in Threads(team) : TeamReconstruct(th)
  \/ \E th \in Threads(team) : TeamRiemann(th)
  \/ \E th \in Threads(team) : TeamDiff(th)
  \/ \E th \in Threads(team) : TeamRoll(th)
  \/ \E b \in {"b1", "b2", "b3"} : team_barrier(b)

SpecTeam == InitTeam /\ [][NextTeam]_vars

\* ============================================================ claims
\* the cells of the box ix
BoxCells(ix) == {<<k, j, i>> : k \in ix.kl..ix.ku, j \in ix.jl..ix.ju, i \in ix.il..ix.iu}

\* the cell of box rx at the offset cell c has in box sx
Matching(sx, rx, c) == <<c[1] - sx.kl + rx.kl, c[2] - sx.jl + rx.jl, c[3] - sx.il + rx.il>>

Real(r, n, m) == nghbr(r, n, m).gid >= 0

\* rank R has run the SendBuffersCC of cycle c of field f
SentFor(f, R, c) ==
  \/ cyc[f][R] > c
  \/ cyc[f][R] = c /\ pc[f][R] \in {"sent", "done"}

\* the ghost cells of buffer n of block m on rank r hold what the neighbour's
\* interior held in cycle c
GhostsOfCycle(arr, f, r, n, m, c) ==
  LET sx == SendIndex(nghbr(r, n, m).destn)
      rx == RecvIndex(n)
  IN \A v \in VarIds, s \in BoxCells(sx) :
       arr[f][r][m][v][Matching(sx, rx, s)] = Val(f, c, nghbr(r, n, m).gid, v, s)

\* C1: after a full exchange cycle (SendBuffersCC, then RecvBuffersCC polled
\* until complete), for every block m, direction n with a real neighbour and
\* variable v, the ghost cells of the neighbour covered by recv_buf[destn]
\* hold the values the source array of block m held in the cells of
\* send_buf[n] when SendBuffersCC ran, on the same-rank and the cross-rank
\* path alike.
C1_GhostsEqualSource ==
  \A f \in flds, r \in ActiveRanks, n \in Dirs : \A m \in Blocks(r) :
    Real(r, n, m) =>
      LET R == nghbr(r, n, m).rank
          mm == nghbr(r, n, m).gid - gidslist(R)
          nn == nghbr(r, n, m).destn
          sx == SendIndex(n)
          rx == RecvIndex(nn)
      IN pc[f][R] = "done" =>
           \A v \in VarIds, s \in BoxCells(sx) :
             a[f][R][mm][v][Matching(sx, rx, s)] = Val(f, cyc[f][R], mbgid(r, m), v, s)

\* a rank has completed its second cycle with one buffer fed by a same-rank
\* copy and one fed by a message from the other rank
C1_Witness ==
  \E f \in flds, r \in ActiveRanks, n1 \in Dirs, n2 \in Dirs :
    \E m1 \in Blocks(r), m2 \in Blocks(r) :
      /\ pc[f][r] = "done" /\ cyc[f][r] = MaxCycle
      /\ Real(r, n1, m1) /\ nghbr(r, n1, m1).rank = r
      /\ Real(r, n2, m2) /\ nghbr(r, n2, m2).rank # r
      /\ GhostsOfCycle(a, f, r, n1, m1, MaxCycle)
      /\ GhostsOfCycle(a, f, r, n2, m2, MaxCycle)

\* a required transfer of rank r is not complete: a same-rank buffer still
\* waiting, or a cross-rank receive the transport has not matched
TransferPending(f, r) ==
  \E n \in Dirs, m \in Blocks(r) :
    /\ Real(r, n, m)
    /\ \/ nghbr(r, n, m).rank = r /\ bstat[f][r][n][m] = "waiting"
       \/ nghbr(r, n, m).rank # r /\ req[f][r][n][m] = "active"

\* C2: RecvBuffersCC returns incomplete if and only if, when it is called,
\* at least one (block, direction) with a real neighbour has a transfer that
\* is not complete; otherwise it returns complete.
C2_IncompleteIffPending ==
  [][\A f \in flds, r \in ActiveRanks :
       RecvBuffersCC(f, r) =>
         (ret'[f][r] = "incomplete" <=> TransferPending(f, r))]_vars

\* a call returned incomplete although one cross-rank transfer of the rank had
\* completed and a same-rank one had not
C2_Witness ==
  \E f \in flds, r \in ActiveRanks, n1 \in Dirs, n2 \in Dirs :
    \E m1 \in Blocks(r), m2 \in Blocks(r) :
      /\ ret[f][r] = "incomplete"
      /\ Real(r, n1, m1) /\ nghbr(r, n1, m1).rank # r /\ bstat[f][r][n1][m1] = "received"
      /\ Real(r, n2, m2) /\ nghbr(r, n2, m2).rank = r /\ bstat[f][r][n2][m2] = "waiting"

\* C3: a call of RecvBuffersCC that returns incomplete leaves every element
\* of the destination array unchanged, also the ghost cells of the buffers
\* whose transfer has completed.
C3_IncompleteLeavesArray ==
  [][\A f \in flds, r \in ActiveRanks :
       (RecvBuffersCC(f, r) /\ ret'[f][r] = "incomplete") => a' = a]_vars

\* a call returned incomplete while a completed cross-rank buffer held data
\* its ghost cells do not hold
C3_Witness ==
  \E f \in flds, r \in ActiveRanks, n \in Dirs : \E m \in Blocks(r) :
    /\ ret[f][r] = "incomplete"
    /\ Real(r, n, m) /\ bstat[f][r][n][m] = "received"
    /\ \E v \in VarIds, c \in BoxCells(RecvIndex(n)) :
         a[f][r][m][v][c] # rdat[f][r][n][m][v][FlatIndex(RecvIndex(n), c[1], c[2], c[3])]

\* C5: for a same-rank neighbour the receive status of the target (block,
\* buffer) is received only when every cell of every variable of that buffer
\* has been written into the target receive buffer by SendBuffersCC.
C5_ReceivedAfterData ==
  \A f \in flds, r \in ActiveRanks, n \in Dirs : \A m \in Blocks(r) :
    (Real(r, n, m) /\ nghbr(r, n, m).rank = r) =>
      LET mm == nghbr(r, n, m).gid - gidslist(r)
          nn == nghbr(r, n, m).destn
          sx == SendIndex(n)
          rx == RecvIndex(nn)
      IN bstat[f][r][nn][mm] = "received" =>
           \A v \in VarIds, s \in BoxCells(sx) :
             LET g == Matching(sx, rx, s)
             IN rdat[f][r][nn][mm][v][FlatIndex(rx, g[1], g[2], g[3])] = a[f][r][m][v][s]

\* the SendBuffersCC of the last cycle has written a same-rank buffer and
\* marked it received
C5_Witness ==
  \E f \in flds, r \in ActiveRanks, n \in Dirs : \E m \in Blocks(r) :
    /\ Real(r, n, m) /\ nghbr(r, n, m).rank = r
    /\ cyc[f][r] = MaxCycle /\ pc[f][r] = "sent"
    /\ bstat[f][r][nghbr(r, n, m).destn][nghbr(r, n, m).gid - gidslist(r)] = "received"
    /\ rdat[f][r][nghbr(r, n, m).destn][nghbr(r, n, m).gid - gidslist(r)][0][0]
         = Val(f, MaxCycle, mbgid(r, m), 0, <<0, 0, SendIndex(n).il>>)

\* C9: calling RecvBuffersCC again after it has returned complete, with no
\* SendBuffersCC in between, returns complete and leaves the destination
\* array as the first complete call left it.
C9_RecvAgainSame ==
  [][\A f \in flds, r \in ActiveRanks :
       (RecvBuffersCC(f, r) /\ ret[f][r] = "complete") =>
         (ret'[f][r] = "complete" /\ a' = a)]_vars

\* a second call after a complete one, on a rank with a real neighbour on
\* each path
C9_Witness ==
  \E f \in flds, r \in ActiveRanks, n1 \in Dirs, n2 \in Dirs :
    \E m1 \in Blocks(r), m2 \in Blocks(r) :
      /\ prev[f][r] = "complete" /\ ret[f][r] = "complete"
      /\ pc[f][r] = "done"
      /\ Real(r, n1, m1) /\ nghbr(r, n1, m1).rank = r
      /\ Real(r, n2, m2) /\ nghbr(r, n2, m2).rank # r

\* some buffer of rank r with a real neighbour is fed by a SendBuffersCC of
\* the rank's current cycle that has not run yet
FeedPending(f, r) ==
  \E n \in Dirs, m \in Blocks(r) :
    Real(r, n, m) /\ ~SentFor(f, nghbr(r, n, m).rank, cyc[f][r])

HasReal(r) == \E n \in Dirs, m \in Blocks(r) : Real(r, n, m)

\* C4 as stated: every receive status of a real neighbour is waiting when a
\* cycle starts, so a RecvBuffersCC call made before the SendBuffersCC of the
\* cycle has run returns incomplete (here only for a pack that has a real
\* neighbour at all).
C4_Original ==
  [][\A f \in flds, r \in ActiveRanks :
       (RecvBuffersCC(f, r) /\ pc[f][r] \in {"posted", "ready"} /\ HasReal(r)) =>
         ret'[f][r] = "incomplete"]_vars

\* C4, amended: when a cycle starts every receive status of a real neighbour
\* is waiting; a RecvBuffersCC call returns incomplete as long as a
\* SendBuffersCC of that cycle that feeds one of its buffers with a real
\* neighbour has not run (its own for a same-rank neighbour, the other rank's
\* for a cross-rank one); and a call that returns complete has unpacked, for
\* every real neighbour, the data of the caller's current cycle, never the
\* data of the cycle before.
C4_ResetEveryCycle ==
  [][\A f \in flds, r \in ActiveRanks :
       /\ InitRecv(f, r) =>
            \A n \in Dirs, m \in Blocks(r) :
              Real(r, n, m) => bstat'[f][r][n][m] = "waiting"
       /\ (RecvBuffersCC(f, r) /\ FeedPending(f, r)) => ret'[f][r] = "incomplete"
       /\ (RecvBuffersCC(f, r) /\ ret'[f][r] = "complete") =>
            \A n \in Dirs, m \in Blocks(r) :
              Real(r, n, m) => GhostsOfCycle(a', f, r, n, m, cyc[f][r])]_vars

\* in its last cycle, before its own SendBuffersCC, a rank with a same-rank
\* neighbour has polled and got incomplete although a cross-rank buffer of the
\* new cycle had already arrived, the ghost cells still holding the old cycle
C4_Witness ==
  \E f \in flds, r \in ActiveRanks, n1 \in Dirs, n2 \in Dirs :
    \E m1 \in Blocks(r), m2 \in Blocks(r) :
      /\ cyc[f][r] = MaxCycle /\ pc[f][r] \in {"posted", "ready"}
      /\ ret[f][r] = "incomplete"
      /\ Real(r, n1, m1) /\ nghbr(r, n1, m1).rank = r
      /\ Real(r, n2, m2) /\ nghbr(r, n2, m2).rank # r /\ bstat[f][r][n2][m2] = "received"
      /\ GhostsOfCycle(a, f, r, n1, m1, MaxCycle - 1)
      /\ GhostsOfCycle(a, f, r, n2, m2, MaxCycle - 1)

\* the number of messages a SendBuffersCC of rank r has to issue to rank d
SendsTo(r, d) ==
  Cardinality({nm \in Dirs \X Blocks(r) :
                 Real(r, nm[1], nm[2]) /\ nghbr(r, nm[1], nm[2]).rank = d})

\* C6: SendBuffersCC skips every (block, direction) whose neighbour gid is
\* the sentinel -1: for such a pair it writes no element of a send or receive
\* buffer, issues no send and changes no receive status.
C6_SkipsPhysicalBoundary ==
  [][\A f \in flds, r \in ActiveRanks :
       (SendBuffersCC_Pack(f, r) \/ SendBuffersCC_Send(f, r)) =>
         /\ \A n \in Dirs, m \in Blocks(r) :
              ~Real(r, n, m) =>
                /\ sdat'[f][r][n][m] = sdat[f][r][n][m]
                /\ rdat'[f][r][n][m] = rdat[f][r][n][m]
                /\ bstat'[f][r][n][m] = bstat[f][r][n][m]
         /\ SendBuffersCC_Send(f, r) =>
              \A d \in Ranks : d # r =>
                Len(chan'[r][d]) = Len(chan[r][d]) + SendsTo(r, d)]_vars

AllSentinel(r) == \A n \in Dirs, m \in Blocks(r) : ~Real(r, n, m)

\* C7: for a pack whose every neighbour slot is the sentinel -1,
\* SendBuffersCC and RecvBuffersCC perform zero transfers (no buffer copy, no
\* send, no status change, no transport test) and each returns complete on
\* its first call.
C7_AllSentinelNoTransfer ==
  [][\A f \in flds, r \in ActiveRanks :
       AllSentinel(r) =>
         /\ (SendBuffersCC_Pack(f, r) \/ SendBuffersCC_Send(f, r)) =>
              (sdat' = sdat /\ rdat' = rdat /\ bstat' = bstat /\ chan' = chan /\ a' = a)
         /\ RecvBuffersCC(f, r) =>
              (ret'[f][r] = "complete" /\ a' = a /\ bstat' = bstat /\ req' = req)]_vars

\* every active rank has run the SendBuffersCC of cycle c of field f
AllSent(f, c) == \A R \in ActiveRanks : SentFor(f, R, c)

\* every real neighbour of the blocks of rank r is on rank r
AllLocal(r) == \A n \in Dirs, m \in Blocks(r) : Real(r, n, m) => nghbr(r, n, m).rank = r

\* C8: once every block has run SendBuffersCC for the cycle and every
\* cross-rank message is eventually delivered, repeated calls of
\* RecvBuffersCC eventually return complete; and when all real neighbours
\* are on the local rank, the first RecvBuffersCC call after SendBuffersCC
\* returns complete.
C8_EventuallyComplete ==
  /\ \A r \in Ranks :
       (r \in ActiveRanks /\ pc[1][r] = "sent" /\ AllSent(1, cyc[1][r]))
         ~> (pc[1][r] = "done" /\ ret[1][r] = "complete")
  /\ [][\A f \in flds, r \in ActiveRanks :
          (RecvBuffersCC(f, r) /\ pc[f][r] = "sent" /\ AllLocal(r)) =>
            ret'[f][r] = "complete"]_vars

\* a rank with a cross-rank neighbour has polled in vain after every rank had
\* sent, the message still being under way
C8_Witness ==
  \E f \in flds, r \in ActiveRanks, n \in Dirs : \E m \in Blocks(r) :
    /\ pc[f][r] = "sent" /\ AllSent(f, cyc[f][r]) /\ ret[f][r] = "incomplete"
    /\ Real(r, n, m) /\ nghbr(r, n, m).rank # r /\ req[f][r][n][m] = "active"

\* the field a value belongs to (0 is the content of a buffer never written)
FieldOf(x) == x \div 10000

\* C10: two exchanges in flight at the same time with different keys never
\* cross-talk: a message sent with key k1 never completes a receive of the
\* exchange with key k2 # k1, so the receive buffers and the ghost cells of
\* one field never hold the other field's data.
C10_NoCrossTalk ==
  \A f \in flds, r \in ActiveRanks, n \in Dirs : \A m \in Blocks(r) :
    /\ \A v \in VarIds : \A x \in DOMAIN rdat[f][r][n][m][v] :
         FieldOf(rdat[f][r][n][m][v][x]) \in {0, f}
    /\ \A v \in VarIds, c \in Cells : FieldOf(a[f][r][m][v][c]) \in {0, f}
    /\ (Real(r, n, m) /\ nghbr(r, n, m).rank # r /\ req[f][r][n][m] \in {"done", "null"}) =>
         \A v \in VarIds : \A x \in DOMAIN rdat[f][r][n][m][v] :
           FieldOf(rdat[f][r][n][m][v][x]) = f

\* the messages of both fields for the same block and buffer are in flight
\* together, the other field's first, and the receive of one field has
\* completed with its own data
C10_Witness ==
  \E r \in ActiveRanks, n \in Dirs : \E m \in Blocks(r) :
    /\ flds = {1, 2}
    /\ Real(r, n, m) /\ nghbr(r, n, m).rank # r
    /\ req[1][r][n][m] = "done" /\ req[2][r][n][m] = "active"
    /\ FieldOf(rdat[1][r][n][m][0][0]) = 1
    /\ \E x \in 1..Len(chan[nghbr(r, n, m).rank][r]) :
         chan[nghbr(r, n, m).rank][r][x].tag = RecvTag(2, n, m)

\* the cell counts (ni, nj, nk) of an index range
Counts(ix) == <<ix.iu - ix.il + 1, ix.ju - ix.jl + 1, ix.ku - ix.kl + 1>>

\* the offsets (dk, dj, di) of the cells of a box of the counts cn
Offsets(cn) == {<<dk, dj, di>> : dk \in 0..(cn[3] - 1), dj \in 0..(cn[2] - 1), di \in 0..(cn[1] - 1)}

\* the flat index of the cell at offset d of the box ix
FlatAt(ix, d) == FlatIndex(ix, ix.kl + d[1], ix.jl + d[2], ix.il + d[3])

\* C11: for nnghbr = 2, 8 and 26 and every direction n, the range of
\* send_buf[n] has the same cell counts (ni, nj, nk) as the range of the
\* receive buffer of the opposite direction and as that of recv_buf[n], so
\* that a cell offset has the same flat index at pack and at unpack time.
C11_CongruentRanges ==
  send_index # <<>> =>
    \A n \in DOMAIN send_index :
      /\ DOMAIN send_index = 0..(geom.nnghbr - 1)
      /\ Opposite(n) \in DOMAIN recv_index
      /\ Counts(send_index[n]) = Counts(recv_index[Opposite(n)])
      /\ Counts(send_index[n]) = Counts(recv_index[n])
      /\ \A d \in Offsets(Counts(send_index[n])) :
            /\ FlatAt(send_index[n], d) = FlatAt(recv_index[Opposite(n)], d)
            /\ FlatAt(send_index[n], d) = FlatAt(recv_index[n], d)

C11_Witness ==
  /\ send_index # <<>>
  /\ geom.nnghbr = 26
  /\ geom.ng = 2
  /\ Counts(send_index[25]) = <<2, 2, 2>>
  /\ Counts(send_index[9]) = <<MaxNX, MaxNX, 2>>
  /\ recv_index[Opposite(25)].il = 0

\* the scheduler of field f on rank r may call RecvBuffersCC
MayPoll(f, r) ==
  pc[f][r] \in (IF mesh.early THEN {"posted", "ready"} ELSE {}) \cup {"sent", "done"}

\* C12: SendBuffersCC always returns complete and never waits: both halves
\* of it can run whatever the state of the receivers and of the transport;
\* RecvBuffersCC can run whenever it is called and returns after one poll of
\* each transfer, with complete or incomplete, leaving the transport alone.
C12_NeverWaits ==
  /\ [](\A f \in flds, r \in ActiveRanks :
         /\ pc[f][r] = "ready" => ENABLED SendBuffersCC_Pack(f, r)
         /\ pc[f][r] = "packed" => ENABLED SendBuffersCC_Send(f, r)
         /\ pc[f][r] = "sent" => sret[f][r] = "complete"
         /\ MayPoll(f, r) => ENABLED RecvBuffersCC(f, r))
  /\ [][\A f \in flds, r \in ActiveRanks :
         /\ SendBuffersCC_Send(f, r) => sret'[f][r] = "complete"
         /\ RecvBuffersCC(f, r) =>
               /\ ret'[f][r] \in {"complete", "incomplete"}
               /\ chan' = chan]_vars

\* SendBuffersCC has returned complete while a message it sent is still in
\* flight, and a RecvBuffersCC call has returned incomplete
C12_Witness ==
  \E f \in flds, r \in ActiveRanks :
    /\ sret[f][r] = "complete"
    /\ \E d \in Ranks : chan[r][d] # <<>>
    /\ ret[f][r] = "incomplete"

\* the configuration names a reconstruction method and a Riemann solver
ValidMethods(h) ==
  h.recon \in {"dc", "plm", "ppm"} /\ h.solver \in {"advect", "llf", "hllc", "roe"}

\* C13: for a uniform w0, HydroDivFlux leaves divf zero in every interior
\* cell, for every reconstruction method and Riemann solver, in 1D, 2D, 3D.
C13_UniformZero ==
  (hpc = "done" /\ hyd.amp = 0 /\ ValidMethods(hyd)) =>
     \A n \in HVars : \A c \in HInterior(hyd) : divf[n][c] = 0

C13_Witness ==
  /\ hpc = "done" /\ hret = "complete"
  /\ hyd.amp = 0 /\ hyd.dim = 3 /\ hyd.recon = "ppm" /\ hyd.solver = "roe"
  /\ hyd.old = 1 /\ hyd.garb = 1
  /\ \A n \in HVars : \A c \in HInterior(hyd) : divf[n][c] = 0 /\ w0[n][c] # 0

\* C14: with a reconstruction method or a Riemann solver that is no known
\* enum value, the value HydroDivFlux writes or adds to divf is zero in every
\* interior cell, whatever the scratch arrays held.
C14_UnknownMethodZero ==
  (hlog # <<>> /\ ~ValidMethods(hyd)) =>
     \A n \in HVars : \A c \in HInterior(hyd) : divf[n][c] = 0

\* the sweep of direction s applied to the divergence d
ApplySweep(h, q, s, d) ==
  CASE s = 1 -> SweepX1(h, q, d)
    [] s = 2 -> SweepX2(h, q, d).d
    [] s = 3 -> SweepX3(h, q, d).d

\* the sweeps of the sequence ord applied one after the other
RECURSIVE ApplyOrder(_, _, _, _)
ApplyOrder(h, q, ord, d) ==
  IF ord = <<>> THEN d
  ELSE ApplyOrder(h, q, Tail(ord), ApplySweep(h, q, Head(ord), d))

\* the orders the active sweeps of the mesh can be run in
Orders(h) ==
  {ord \in [1..h.dim -> 1..h.dim] : \A x, y \in 1..h.dim : x # y => ord[x] # ord[y]}

C16_SweepOrder ==
  /\ hpc = "done" => /\ hret = "complete"
                     /\ hlog = [x \in 1..hyd.dim |-> x]
  /\ hpc \in {"call", "x2", "x3"} => hret = "none"
  /\ hpc = "call" => hlog = <<>>
  /\ hpc = "x2" => /\ hlog = <<1>> /\ hyd.dim > 1
                   /\ divf = SweepX1(hyd, w0, Divf0Of(hyd))
  /\ hpc = "x3" => /\ hlog = <<1, 2>> /\ hyd.dim > 2
                   /\ divf = SweepX2(hyd, w0, SweepX1(hyd, w0, Divf0Of(hyd))).d

C16_Witness ==
  /\ hpc = "done" /\ hret = "complete" /\ hyd.dim = 2 /\ hlog = <<1, 2>>
  /\ hyd.amp = 1 /\ ValidMethods(hyd)
  /\ divf = SweepX2(hyd, w0, SweepX1(hyd, w0, Divf0Of(hyd))).d

\* the direction-d flux at the lower face of cell c: the Riemann flux of the
\* left state reconstructed in the cell below the face and the right state
\* reconstructed in cell c
FaceFlux(h, q, n, c, d) ==
  FluxOf(h.solver, CASE d = 1 -> IVX [] d = 2 -> IVY [] d = 3 -> IVZ,
         ReconL(h.recon, q[n], Shift(c, d, -1), d),
         ReconR(h.recon, q[n], c, d))

\* the direction-d term of the divergence in cell c
DivTerm(h, q, n, c, d) ==
  (FaceFlux(h, q, n, Shift(c, d, 1), d) - FaceFlux(h, q, n, c, d))
     \div (CASE d = 1 -> mb_cells(h).dx1 [] d = 2 -> mb_cells(h).dx2 [] d = 3 -> mb_cells(h).dx3)

\* C17: after HydroDivFlux on a 3D mesh, divf is in every interior cell the
\* sum of the three flux differences (F1[i+1]-F1[i])/dx1 + (F2[j+1]-F2[j])/dx2
\* + (F3[k+1]-F3[k])/dx3: the x1 term replaces the old content, the x2 and
\* x3 terms are each added exactly once.
C17_DivergenceSum ==
  (hpc = "done" /\ hyd.dim = 3 /\ ValidMethods(hyd)) =>
     \A n \in HVars : \A c \in HInterior(hyd) :
       divf[n][c] = DivTerm(hyd, w0, n, c, 1) + DivTerm(hyd, w0, n, c, 2)
                    + DivTerm(hyd, w0, n, c, 3)

\* the sweep direction of the sliding window win was left by
WinDir == IF hlog[Len(hlog)] = 3 THEN 3 ELSE 2

\* the cell of outer task t, iteration x and index i of a sliding sweep
WinCell(d, t, x, i) == IF d = 2 THEN <<t, x, i>> ELSE <<x, t, i>>

\* C18: in the sliding window of the x2 and x3 sweeps the values kept from
\* the iteration before stay distinct from those of the current one: the
\* Riemann solve of iteration j reads the left state reconstructed in
\* iteration j-1, the difference subtracts the flux computed in iteration
\* j-1, and the term added is (flux at face j - flux at face j-1).
C18_WindowKeepsPrevious ==
  win # <<>> =>
    \A t \in DOMAIN win : \A p \in 2..Len(win[t]) :
      LET e == win[t][p]
          b == win[t][p - 1]
          mb == mb_cells(hyd)
      IN \A n \in HVars : \A i \in mb.is..mb.ie :
           /\ e.left[n][i] = e.kept[n][i]
           /\ p > 2 =>
                /\ e.sub[n][i] = b.flux[n][i]
                /\ ValidMethods(hyd) =>
                     e.flux[n][i] - e.sub[n][i] =
                       FaceFlux(hyd, w0, n, WinCell(WinDir, t, e.x, i), WinDir)
                       - FaceFlux(hyd, w0, n, WinCell(WinDir, t, b.x, i), WinDir)

\* two threads access the same element between two barriers, one writing
Race ==
  \E x, y \in tacc : x.th # y.th /\ x.arr = y.arr /\ x.i = y.i /\ (x.w \/ y.w)

\* how far thread th is: four per iteration of the window, plus one for the
\* reconstruction, the Riemann solve and the differencing it has done
Done(th) ==
  4 * tx[th] +
    (CASE tpc[th] = "recon" -> 0
       [] tpc[th] \in {"b1", "riemann"} -> 1
       [] tpc[th] \in {"b2", "diff"} -> 2
       [] tpc[th] = "b3" -> 3
       [] tpc[th] = "roll" -> 4
       [] tpc[th] = "end" -> 0)

\* C19: the threads of a team never race on the scratch arrays: every
\* reconstruction write precedes, through a barrier, every Riemann-solve
\* read, every flux write precedes every differencing read, and in the x2
\* and x3 sweeps the differencing of an iteration precedes the writes of the
\* next: no thread is more than one stage ahead of another, and no element
\* is accessed by two threads, one writing, between two barriers.
C19_NoScratchRace ==
  team # <<>> =>
    /\ ~Race
    /\ \A t1, t2 \in Threads(team) : Done(t1) <= Done(t2) + 1

\* a thread of the x1 task reads, after the barrier, an element of wl or wr
\* that another thread wrote before it
C19_Witness ==
  /\ team # <<>> /\ team.d = 1
  /\ \E t1, t2 \in Threads(team) :
       /\ t1 # t2 /\ tpc[t1] = "b2"
       /\ \E x \in tacc :
            /\ x.th = t1 /\ ~x.w
            /\ LET I == Mine(team, t2, mb_cells(team).is - 1, mb_cells(team).ie + 1)
               IN \/ x.arr = "wl" /\ x.i \in {i + 1 : i \in I}
                  \/ x.arr = "wr" /\ x.i \in I

\* buffer data buf holds, for every variable, the send cells of direction n
\* of block m of field f on rank r
HoldsCells(buf, f, r, n, m) ==
  \A v \in VarIds : \A c \in TeamCells(SendIndex(n)) :
    buf[v][FlatIndex(SendIndex(n), c[1], c[2], c[3])] = a[f][r][m][v][c]

\* the pack step of SendBuffersCC(f, r): a pair whose neighbour is on rank r
\* is copied into recv_buf[destn] of the neighbour block and leaves
\* send_buf[n] alone, any other pair is copied into send_buf[n] of block m,
\* and no receive buffer is written but by a same-rank pair
PackPath(f, r) ==
  /\ \A n \in Dirs, m \in Blocks(r) :
       IF nghbr(r, n, m).rank = r
       THEN /\ HoldsCells(rdat'[f][r][PackDest(r, n, m).nn][PackDest(r, n, m).mm], f, r, n, m)
            /\ sdat'[f][r][n][m] = sdat[f][r][n][m]
       ELSE HoldsCells(sdat'[f][r][n][m], f, r, n, m)
  /\ \A nn \in Dirs, mm \in Blocks(r) :
       rdat'[f][r][nn][mm] # rdat[f][r][nn][mm] =>
         \E n \in Dirs, m \in Blocks(r) :
           nghbr(r, n, m).rank = r /\ PackDest(r, n, m) = [mm |-> mm, nn |-> nn]

\* the send step issues the message of pair (m, n) to rank d
Issues(f, r, n, m, d) ==
  /\ d \in Ranks
  /\ \E x \in (Len(chan[r][d]) + 1)..Len(chan'[r][d]) :
       chan'[r][d][x] = [tag |-> SendTag(r, n, m, KeyOf(f)), data |-> sdat[f][r][n][m]]

\* the send step of SendBuffersCC(f, r) takes, for every pair, the branch the
\* pack step took: a status flip for a copy, a send for a packed send buffer
SendPath(f, r) ==
  \A n \in Dirs, m \in Blocks(r) :
    IF nghbr(r, n, m).rank = r
    THEN /\ bstat'[f][r][PackDest(r, n, m).nn][PackDest(r, n, m).mm] = "received"
         /\ \A d \in Ranks : ~Issues(f, r, n, m, d)
    ELSE Issues(f, r, n, m, nghbr(r, n, m).rank)

\* C20: SendBuffersCC chooses the path of each (block m, direction n) from
\* the neighbour's rank: equal to the local rank, the cells go only into
\* recv_buf[destn] of the neighbour block and send_buf[n] is not written;
\* otherwise they go only into send_buf[n] of block m and no receive buffer
\* is written.  The pack step and the later send/status step take the same
\* branch for the same (m, n).
C20_PathByRank ==
  [][\A f \in flds, r \in ActiveRanks :
       /\ SendBuffersCC_Pack(f, r) => PackPath(f, r)
       /\ SendBuffersCC_Send(f, r) => SendPath(f, r)]_vars

\* the messages the step appends to the channel from rank r to rank d
NewMsgs(r, d) == SubSeq(chan'[r][d], Len(chan[r][d]) + 1, Len(chan'[r][d]))

\* the message SendBuffersCC(f, r) builds for pair (m, n): the tag holds the
\* local ID of the receiving block on its rank, destn and the caller's key
MsgOf(f, r, n, m) ==
  [tag |-> <<nghbr(r, n, m).gid - gidslist(nghbr(r, n, m).rank),
             nghbr(r, n, m).destn, KeyOf(f)>>,
   data |-> sdat[f][r][n][m]]

\* C21: for every (block m, direction n) whose neighbour is real and owned
\* by another rank, one call of SendBuffersCC issues exactly one send, to the
\* neighbour's rank, carrying send_buf[n] of block m, tagged with the
\* receiving block's local ID, destn and the caller's key; it issues no send
\* for same-rank neighbours or physical boundaries.
C21_OneSendPerPair ==
  [][\A f \in flds, r \in ActiveRanks :
       SendBuffersCC_Send(f, r) =>
         /\ \A n \in Dirs, m \in Blocks(r) :
              (Real(r, n, m) /\ nghbr(r, n, m).rank # r) =>
                Cardinality({x \in DOMAIN NewMsgs(r, nghbr(r, n, m).rank) :
                               NewMsgs(r, nghbr(r, n, m).rank)[x] = MsgOf(f, r, n, m)}) = 1
         /\ \A d \in Ranks :
              /\ Len(chan'[r][d]) = Len(chan[r][d]) + (IF d = r THEN 0 ELSE SendsTo(r, d))
              /\ SubSeq(chan'[r][d], 1, Len(chan[r][d])) = chan[r][d]
         /\ \A s \in Ranks : s # r => chan'[s] = chan[s]]_vars

\* a rank has just sent while holding a cross-rank neighbour, a same-rank
\* neighbour and a physical boundary
C21_Witness ==
  \E f \in flds, r \in ActiveRanks :
    /\ pc[f][r] = "sent"
    /\ \E d \in Ranks : d # r /\ chan[r][d] # <<>>
    /\ \E n \in Dirs, m \in Blocks(r) : Real(r, n, m) /\ nghbr(r, n, m).rank # r
    /\ \E n \in Dirs, m \in Blocks(r) : Real(r, n, m) /\ nghbr(r, n, m).rank = r
    /\ \E n \in Dirs, m \in Blocks(r) : ~Real(r, n, m)

\* the cells of the box [il..iu] x [jl..ju] x [kl..ku], as <<k, j, i>>
Box(ix) == {<<k, j, i>> : k \in ix.kl..ix.ku, j \in ix.jl..ix.ju, i \in ix.il..ix.iu}

\* the offset of cell c in the box ix
OffsetIn(ix, c) == <<c[1] - ix.kl, c[2] - ix.jl, c[3] - ix.il>>

\* the data of a buffer after the pack kernel ran over the box sx: every
\* element holds the cell it was written from, or <<>> if none wrote it
PackedFrom(sx) ==
  Store([x \in 0..(BufCells(sx) - 1) |-> <<>>],
        {<<FlatIndex(sx, c[1], c[2], c[3]), c>> : c \in TeamCells(sx)})

\* what the unpack kernel run over the box rx stores in cell c
UnpackedAt(rx, data, c) == data[FlatIndex(rx, c[1], c[2], c[3])]

\* C22: for every buffer the flattened index maps the cells of its box
\* one-to-one onto 0 .. ni*nj*nk-1, the pack and the unpack kernel enumerate
\* exactly the cells of the box with that function, and the value unpacked
\* into a cell offset is the value packed from the same offset.
C22_FlatIndexBijection ==
  send_index # <<>> =>
    \A n \in DOMAIN send_index :
      /\ \A ix \in {send_index[n], recv_index[n]} :
           /\ TeamCells(ix) = Box(ix)
           /\ Cardinality(Box(ix)) = BufCells(ix)
           /\ {FlatIndex(ix, c[1], c[2], c[3]) : c \in Box(ix)} = 0..(BufCells(ix) - 1)
      /\ LET sx == send_index[n]
             rx == recv_index[Opposite(n)]
         IN \A c \in TeamCells(rx) :
              /\ FlatIndex(rx, c[1], c[2], c[3]) \in DOMAIN PackedFrom(sx)
              /\ UnpackedAt(rx, PackedFrom(sx), c) \in Box(sx)
              /\ OffsetIn(sx, UnpackedAt(rx, PackedFrom(sx), c)) = OffsetIn(rx, c)

\* a 3D allocation with a buffer of more than one cell in every direction
\* and ni different from nj
C22_Witness ==
  /\ send_index # <<>>
  /\ geom.nnghbr = 26
  /\ \E n \in DOMAIN send_index :
       LET cn == Counts(send_index[n])
       IN cn[1] > 2 /\ cn[2] = 2 /\ cn[3] = 2

\* C23: when RecvBuffersCC returns complete, it leaves unchanged the ghost
\* cells of every (block, direction) whose neighbour is a physical boundary
\* (gid -1): they are not overwritten with the content of a receive buffer
\* that no sender filled.
C23_BoundaryGhostsKept ==
  [][\A f \in flds, r \in ActiveRanks :
       (RecvBuffersCC(f, r) /\ ret'[f][r] = "complete") =>
         \A n \in Dirs, m \in Blocks(r) :
           ~Real(r, n, m) =>
             \A v \in VarIds : \A c \in Box(RecvIndex(n)) :
               a'[f][r][m][v][c] = a[f][r][m][v][c]]_vars

\* the interior cells of a MeshBlock of the index geometry g, as <<k, j, i>>
InteriorOf(g) == {<<k, j, i>> : k \in g.ks..g.ke, j \in g.js..g.je, i \in g.is..g.ie}

\* all cells of the array of a MeshBlock: ng ghost cells on either side of
\* every active dimension
ArrayOf(g) ==
  {<<k, j, i>> : k \in (IF g.nnghbr > 8 THEN 0..(g.ke + g.ng) ELSE {0}),
                 j \in (IF g.nnghbr > 2 THEN 0..(g.je + g.ng) ELSE {0}),
                 i \in 0..(g.ie + g.ng)}

\* every active dimension has at least ng interior cells
AtLeastNg(g) ==
  /\ g.ie - g.is + 1 >= g.ng
  /\ g.nnghbr > 2 => g.je - g.js + 1 >= g.ng
  /\ g.nnghbr > 8 => g.ke - g.ks + 1 >= g.ng

\* C24: for nnghbr = 2, 8 or 26 and at least ng interior cells per active
\* dimension, the ranges AllocateBuffersCC gives the receive buffers lie in
\* ghost cells and are pairwise disjoint, and the ranges of the send buffers
\* lie in interior cells: the cells the unpack kernel writes are ghost
\* cells, no two directions write the same cell, and the cells the pack
\* kernel reads are interior cells.
C24_RangesInPlace ==
  (send_index # <<>> /\ AtLeastNg(geom)) =>
    /\ \A n \in DOMAIN recv_index :
         /\ TeamCells(recv_index[n]) # {}
         /\ TeamCells(recv_index[n]) \subseteq ArrayOf(geom) \ InteriorOf(geom)
    /\ \A n1, n2 \in DOMAIN recv_index :
         n1 # n2 => TeamCells(recv_index[n1]) \cap TeamCells(recv_index[n2]) = {}
    /\ \A n \in DOMAIN send_index :
         /\ TeamCells(send_index[n]) # {}
         /\ TeamCells(send_index[n]) \subseteq InteriorOf(geom)

\* a 3D allocation with exactly ng = 2 interior cells in x1 and more in x2
C24_Witness ==
  /\ send_index # <<>> /\ AtLeastNg(geom)
  /\ geom.nnghbr = 26 /\ geom.ng = 2
  /\ geom.ie - geom.is + 1 = 2 /\ geom.je - geom.js + 1 = 3
  /\ send_index[0].iu = geom.ie

\* the neighbour of block m of rank r in direction n is on rank r
SameRank(r, n, m) == Real(r, n, m) /\ nghbr(r, n, m).rank = r

\* the check loop of RecvBuffersCC of rank r, run over the statuses stat
\* for the pair (mm, nn) alone, raises bflag
CheckRaises(f, r, stat, nn, mm) ==
  CheckOne([bflag |-> FALSE, stat |-> stat, rq |-> req[f][r]], r, nn, mm).bflag

\* C25: on the same-rank path of SendBuffersCC the (block, buffer) slot
\* whose receive status is set to received is the slot the pack kernel
\* copied the data into (block gid - mbgid(0) in the kernel, gid - gids in
\* the status loop, buffer destn in both), the block index lies in
\* [0, nmb), and it is the slot RecvBuffersCC checks for the receiving block
\* in the reciprocal direction.
C25_SameSlot ==
  [][\A f \in flds, r \in ActiveRanks :
       /\ SendBuffersCC_Pack(f, r) =>
            \A n \in Dirs, m \in Blocks(r) :
              SameRank(r, n, m) =>
                /\ PackDest(r, n, m).mm \in Blocks(r)
                /\ PackDest(r, n, m).nn \in Dirs
                /\ HoldsCells(rdat'[f][r][PackDest(r, n, m).nn][PackDest(r, n, m).mm],
                              f, r, n, m)
       /\ SendBuffersCC_Send(f, r) =>
            /\ \A n \in Dirs, m \in Blocks(r) :
                 SameRank(r, n, m) =>
                   LET nn == nghbr(r, n, m).destn
                       mm == nghbr(r, n, m).gid - gids(r)
                   IN /\ mm \in Blocks(r) /\ nn \in Dirs
                      /\ [mm |-> mm, nn |-> nn] = PackDest(r, n, m)
                      /\ bstat'[f][r][nn][mm] = "received"
                      /\ HoldsCells(rdat[f][r][nn][mm], f, r, n, m)
                      /\ SameRank(r, nn, mm)
                      /\ nghbr(r, nn, mm).gid = mbgid(r, m)
                      /\ ~CheckRaises(f, r, bstat'[f][r], nn, mm)
                      /\ CheckRaises(f, r, [bstat'[f][r] EXCEPT ![nn][mm] = "waiting"], nn, mm)
            /\ \A nn \in Dirs, mm \in Blocks(r) :
                 bstat'[f][r][nn][mm] # bstat[f][r][nn][mm] =>
                   \E n \in Dirs, m \in Blocks(r) :
                     SameRank(r, n, m) /\ PackDest(r, n, m) = [mm |-> mm, nn |-> nn]]_vars

\* a rank holding two blocks has sent: the copy of one block lies in the
\* slot of the other block, and that slot is the one marked received
C25_Witness ==
  \E f \in flds, r \in ActiveRanks, n \in Dirs : \E m \in Blocks(r) :
    /\ pc[f][r] = "sent" /\ SameRank(r, n, m)
    /\ PackDest(r, n, m).mm # m
    /\ bstat[f][r][PackDest(r, n, m).nn][PackDest(r, n, m).mm] = "received"
    /\ bstat[f][r][PackDest(r, n, m).nn][m] = "waiting"
    /\ HoldsCells(rdat[f][r][PackDest(r, n, m).nn][PackDest(r, n, m).mm], f, r, n, m)

\* C26: HydroDivFlux writes divf only at interior cells (is..ie, js..je,
\* ks..ke) and never modifies w0: during and after the call every ghost-cell
\* entry of divf and every entry of w0 has the value it had before the call.
C26_OnlyInteriorWritten ==
  hyd # <<>> =>
    /\ w0 = W0Of(hyd)
    /\ \A n \in HVars : \A c \in HCells(hyd) \ HInterior(hyd) :
          divf[n][c] = Divf0Of(hyd)[n][c]

\* a 3D call has returned: every interior cell of divf has changed, and the
\* ghost cells hold what an earlier stage left there
C26_Witness ==
  /\ hpc = "done" /\ hyd.dim = 3 /\ hyd.amp = 1 /\ hyd.old = 1
  /\ hyd.recon = "plm" /\ hyd.solver = "llf"
  /\ \A n \in HVars : \A c \in HInterior(hyd) : divf[n][c] # Divf0Of(hyd)[n][c]
  /\ \E n \in HVars : \E c \in HCells(hyd) \ HInterior(hyd) : divf[n][c] # 0

\* the cells whose divf entry the step changes
Changed == {c \in HCells(hyd) : \E n \in HVars : divf'[n][c] # divf[n][c]}

\* the sweep of hyd run task after task in the order of the source's loop
InOrder ==
  CASE hyd.sweep = 1 -> SweepX1(hyd, w0, Divf0Of(hyd))
    [] hyd.sweep = 2 -> SweepX2(hyd, w0, Divf0Of(hyd)).d
    [] hyd.sweep = 3 -> SweepX3(hyd, w0, Divf0Of(hyd)).d

====
